---------------------------- MODULE Spec2Model ----------------------------
(***************************************************************************)
(* Model of the orbit propagators of tle2.js (src/propagators): sgp4,      *)
(* sgp8, sdp4, sdp8 with their init functions, the deep-space subroutines  *)
(* dsinit / dssec / dsper and the dispatcher propagate /                   *)
(* propagateWithModel.                                                     *)
(*                                                                         *)
(* JavaScript numbers are modelled as decimal floating-point values        *)
(* [m |-> mantissa, e |-> exponent] standing for m * 10^e, with an         *)
(* 8-digit mantissa (10^7 <= |m| < 10^8, or m = 0), results rounded half   *)
(* up.  NaN and the two infinities are separate values, so that            *)
(* a division by zero or the square root of a negative number behaves as   *)
(* it does in JavaScript (no exception, a NaN that fails every             *)
(* comparison).                                                            *)
(***************************************************************************)
EXTENDS Integers, Sequences, FiniteSets, TLC

(* Call(f, x): the function named f applied to the arguments x.  The functions
   of Math, the arithmetic of numbers and the exported functions of the
   propagators are called by name *)
RECURSIVE Call(_, _)
RECURSIVE NormPos(_, _)
RECURSIVE LongDivision(_, _, _)
RECURSIVE KeplerLoopFrom(_, _, _, _)

-----------------------------------------------------------------------------
(* Number arithmetic *)

NaN == [m |-> 0, e |-> 999]
PosInf == [m |-> 1, e |-> 999]
NegInf == [m |-> -1, e |-> 999]
Zero == [m |-> 0, e |-> 0]

IsNaN(a) == a.e = 999 /\ a.m = 0
IsInf(a) == a.e = 999 /\ a.m # 0
IsFinite(a) == a.e # 999
IsZero(a) == a.e # 999 /\ a.m = 0

Sign(n) == IF n < 0 THEN -1 ELSE IF n > 0 THEN 1 ELSE 0
IAbs(n) == IF n < 0 THEN -n ELSE n

(* w, evaluated after v: statements run in the order they are written *)
Then(v, w) == IF v = v THEN w ELSE w

(* const v = e; ...: the statements that follow a declaration are written as a
   function [v \in {e} |-> ...] of the value declared, which Run applies to that
   value.  Values declared together do not use one another *)
Run(f) == f[CHOOSE v \in DOMAIN f : TRUE]

(* a + b, a * b, a / b, a % b and the functions of Math *)
Add(a, b) == Call("Add", <<a, b>>)
Mul(a, b) == Call("Mul", <<a, b>>)
Div(a, b) == Call("Div", <<a, b>>)
Fmod(a, b) == Call("Fmod", <<a, b>>)
Sqrt(a) == Call("Sqrt", <<a>>)
Cbrt(a) == Call("Cbrt", <<a>>)
Sin(a) == Call("Sin", <<a>>)
Cos(a) == Call("Cos", <<a>>)
Atan2(y, x) == Call("Atan2", <<y, x>>)
Acos(c) == Call("Acos", <<c>>)

(* the decimal literal n * 10^e *)
Dec(n, e) == Call("Dec", <<n, e>>)
(* the integer n as a number *)
Num(n) == Call("Dec", <<n, 0>>)

Pow10(k) == CASE k = 0 -> 1 [] k = 1 -> 10 [] k = 2 -> 100 [] k = 3 -> 1000
              [] k = 4 -> 10000 [] k = 5 -> 100000 [] k = 6 -> 1000000
              [] k = 7 -> 10000000 [] k = 8 -> 100000000
              [] OTHER -> 1000000000

(* n > 0 with its mantissa brought into [10^7, 10^8), rounded half up *)
NormPos(n, e) ==
    IF n >= 1000000000 THEN [m |-> (n + 50) \div 100, e |-> e + 2]
    ELSE IF n >= 100000000
      THEN LET r == (n + 5) \div 10
           IN  IF r = 100000000 THEN [m |-> 10000000, e |-> e + 2]
               ELSE [m |-> r, e |-> e + 1]
    ELSE IF n >= 10000000 THEN [m |-> n, e |-> e]
    ELSE IF n >= 1000 THEN NormPos(n * 10, e - 1)
    ELSE NormPos(n * 10000, e - 4)

Neg(a) == [m |-> -(a.m), e |-> a.e]
Abs(a) == [m |-> IAbs(a.m), e |-> a.e]

Norm(n, e) ==
    IF n = 0 THEN Zero
    ELSE IF n > 0 THEN NormPos(n, e)
    ELSE Neg(NormPos(-n, e))

(* a + b for finite a, b with a.e >= b.e, neither zero: one guard digit *)
AddAligned(a, b) ==
    LET d == a.e - b.e
    IN  IF d = 0 THEN Norm(a.m + b.m, a.e)
        ELSE IF d > 9 THEN a
        ELSE Norm(a.m * 10 + Sign(b.m) * (IAbs(b.m) \div Pow10(d - 1)), a.e - 1)

Sum(a, b) ==
    IF IsNaN(a) \/ IsNaN(b) THEN NaN
    ELSE IF IsInf(a) THEN (IF IsInf(b) /\ b.m # a.m THEN NaN ELSE a)
    ELSE IF IsInf(b) THEN b
    ELSE IF a.m = 0 THEN b
    ELSE IF b.m = 0 THEN a
    ELSE IF a.e >= b.e THEN AddAligned(a, b) ELSE AddAligned(b, a)

Sub(a, b) == Add(a, Neg(b))

Product(a, b) ==
    IF IsNaN(a) \/ IsNaN(b) THEN NaN
    ELSE IF IsInf(a) \/ IsInf(b)
      THEN (IF a.m = 0 \/ b.m = 0 THEN NaN
            ELSE [m |-> Sign(a.m) * Sign(b.m), e |-> 999])
    ELSE IF a.m = 0 \/ b.m = 0 THEN Zero
    ELSE LET x == IAbs(a.m)
             y == IAbs(b.m)
             xh == x \div 10000
             xl == x % 10000
             yh == y \div 10000
             yl == y % 10000
             p == xh * yh * 10 + (xh * yl + xl * yh + (xl * yl) \div 10000) \div 1000
             r == NormPos(p, a.e + b.e + 7)
         IN  IF Sign(a.m) = Sign(b.m) THEN r ELSE [m |-> -(r.m), e |-> r.e]

(* one more digit of the quotient of the long division by y *)
DivDigit(s, y) == [q |-> s.q * 10 + (s.r * 10) \div y, r |-> (s.r * 10) % y]

(* k more digits *)
LongDivision(s, y, k) ==
    IF k = 0 THEN s ELSE Then(s, LongDivision(DivDigit(s, y), y, k - 1))

Quotient(a, b) ==
    IF IsNaN(a) \/ IsNaN(b) THEN NaN
    ELSE IF IsInf(a)
      THEN (IF IsInf(b) THEN NaN
            ELSE [m |-> a.m * (IF b.m < 0 THEN -1 ELSE 1), e |-> 999])
    ELSE IF IsInf(b) THEN Zero
    ELSE IF b.m = 0
      THEN (IF a.m = 0 THEN NaN ELSE [m |-> Sign(a.m), e |-> 999])
    ELSE IF a.m = 0 THEN Zero
    ELSE LET x == IAbs(a.m)
             y == IAbs(b.m)
             s == LongDivision([q |-> x \div y, r |-> x % y], y, 8)
             r == NormPos(s.q, a.e - b.e - 8)
         IN  IF Sign(a.m) = Sign(b.m) THEN r ELSE Neg(r)

(* comparisons: every comparison with NaN is false *)
Lt(a, b) == ~IsNaN(a) /\ ~IsNaN(b) /\ a # b /\ Sub(a, b).m < 0
Gt(a, b) == Lt(b, a)
Le(a, b) == ~IsNaN(a) /\ ~IsNaN(b) /\ (a = b \/ Sub(a, b).m < 0)
Ge(a, b) == Le(b, a)

Max(a, b) == IF IsNaN(a) \/ IsNaN(b) THEN NaN ELSE IF Lt(a, b) THEN b ELSE a

Min(a, b) == IF IsNaN(a) \/ IsNaN(b) THEN NaN ELSE IF Lt(b, a) THEN b ELSE a

(* the integer part of a finite a >= 0 that is below 10^8, as an integer *)
IntPart(a) ==
    IF a.m = 0 \/ a.e < -7 THEN 0
    ELSE IF a.e <= 0 THEN a.m \div Pow10(-(a.e))
    ELSE a.m * Pow10(a.e)

(* JavaScript a % b: the remainder has the sign of the dividend *)
Remainder(a, b) ==
    IF IsNaN(a) \/ IsNaN(b) \/ IsInf(a) \/ b.m = 0 THEN NaN
    ELSE IF IsInf(b) THEN a
    ELSE IF a.m = 0 THEN Zero
    ELSE Run([x \in {Abs(a)},
              y \in {Abs(b)} |->
         IF Lt(x, y) THEN a
             ELSE Run([q \in {Div(x, y)} |->
             Run([n \in {IntPart(q)} |->
             Run([r0 \in {Sub(x, Mul(Num(n), y))} |->
             Run([r \in {IF r0.m < 0 THEN Zero
             ELSE IF Ge(r0, y) THEN Sub(r0, y) ELSE r0} |->
             IF a.m < 0 THEN Neg(r) ELSE r])])])])])

(* one Newton step towards the square root of a *)
SqrtStep(a, y) == Mul(Dec(5, -1), Add(y, Div(a, y)))

(* Math.sqrt: a first guess from the leading digits, then Newton steps *)
SquareRoot(a) ==
    IF IsNaN(a) \/ a.m < 0 THEN NaN
    ELSE IF IsInf(a) \/ a.m = 0 THEN a
    ELSE Run([odd \in {(a.e % 2) # 0} |->
         Run([n \in {IF odd THEN a.m * 10 ELSE a.m},
              ex \in {IF odd THEN a.e - 1 ELSE a.e} |->
         Run([g \in {IF n < 40000000 THEN 4500 ELSE IF n < 160000000 THEN 9000 ELSE 20000} |->
         Run([y0 \in {Norm(g, ex \div 2)} |->
         Run([y1 \in {SqrtStep(a, y0)} |->
         Run([y2 \in {SqrtStep(a, y1)} |->
         Run([y3 \in {SqrtStep(a, y2)} |->
         Run([y4 \in {SqrtStep(a, y3)} |->
         Run([y5 \in {SqrtStep(a, y4)} |->
         y5])])])])])])])])])
CbrtStep(a, y) == Div(Add(Mul(Num(2), y), Div(a, Mul(y, y))), Num(3))

(* the cube root of a finite a > 0: a first guess from the leading digits, then
   Newton steps *)
CubeRoot(a) ==
    Run([k \in {a.e % 3} |->
    Run([n3 \in {IF k = 0 THEN a.m ELSE IF k = 1 THEN a.m \div 100 ELSE a.m \div 10},
         e3 \in {IF k = 0 THEN a.e ELSE IF k = 1 THEN a.e + 2 ELSE a.e + 1} |->
    Run([g \in {IF n3 < 1000000 THEN 70 ELSE IF n3 < 10000000 THEN 150 ELSE 320} |->
    Run([y0 \in {Norm(g, e3 \div 3)} |->
    Run([y1 \in {CbrtStep(a, y0)} |->
    Run([y2 \in {CbrtStep(a, y1)} |->
    Run([y3 \in {CbrtStep(a, y2)} |->
    Run([y4 \in {CbrtStep(a, y3)} |->
    Run([y5 \in {CbrtStep(a, y4)} |->
    Run([y6 \in {CbrtStep(a, y5)} |->
    y6])])])])])])])])])])

(* Math.pow(a, n) for n = 1, 2, 3, 4 *)
PowInt(a, n) ==
    Run([a2 \in {Mul(a, a)} |->
    Run([a3 \in {Mul(a2, a)} |->
    IF n = 1 THEN a
        ELSE IF n = 2 THEN a2
        ELSE IF n = 3 THEN Then(a2, a3)
        ELSE Then(<<a2, a3>>, Mul(a3, a))])])

(* Math.pow(a, 2/3), Math.pow(a, 1.5), Math.pow(a, 3.5) *)
PowTothrd(a) ==
    IF IsNaN(a) \/ a.m < 0 THEN NaN
    ELSE IF IsInf(a) \/ a.m = 0 THEN a
    ELSE Run([c \in {Cbrt(a)} |->
         Mul(c, c)])
Pow1p5(a) == Run([s \in {Sqrt(a)} |->
             Mul(a, s)])
Pow3p5(a) == Run([s \in {Sqrt(a)},
                  c \in {PowInt(a, 3)} |->
             Mul(c, s)])
PiNum == Dec(31415927, -7)
TwoPiNum == Dec(62831853, -7)
HalfPiNum == Dec(15707963, -7)
One == Num(1)

(* the angle a brought into [-pi, pi] *)
ReduceAngle(a) ==
    Run([r \in {Fmod(a, TwoPiNum)} |->
    IF Gt(r, PiNum) THEN Sub(r, TwoPiNum)
        ELSE IF Lt(r, Neg(PiNum)) THEN Add(r, TwoPiNum)
        ELSE r])

(* 1 - (x2 / d) * h: one level of a nested power series *)
Horner(x2, d, h) == Run([q \in {Div(x2, Num(d))} |->
                    Sub(One, Mul(q, h))])

(* the sine of an angle in [-pi/2, pi/2] *)
SinSeries(x) ==
    Run([x2 \in {Mul(x, x)} |->
    Run([h7 \in {Horner(x2, 210, One)} |->
    Run([h6 \in {Horner(x2, 156, h7)} |->
    Run([h5 \in {Horner(x2, 110, h6)} |->
    Run([h4 \in {Horner(x2, 72, h5)} |->
    Run([h3 \in {Horner(x2, 42, h4)} |->
    Run([h2 \in {Horner(x2, 20, h3)} |->
    Run([h1 \in {Horner(x2, 6, h2)} |->
    Mul(x, h1)])])])])])])])])

(* the cosine of an angle in [-pi/2, pi/2] *)
CosSeries(x) ==
    Run([x2 \in {Mul(x, x)} |->
    Run([h8 \in {Horner(x2, 240, One)} |->
    Run([h7 \in {Horner(x2, 182, h8)} |->
    Run([h6 \in {Horner(x2, 132, h7)} |->
    Run([h5 \in {Horner(x2, 90, h6)} |->
    Run([h4 \in {Horner(x2, 56, h5)} |->
    Run([h3 \in {Horner(x2, 30, h4)} |->
    Run([h2 \in {Horner(x2, 12, h3)} |->
    Run([h1 \in {Horner(x2, 2, h2)} |->
    h1])])])])])])])])])

(* Math.sin *)
Sine(a) ==
    IF ~IsFinite(a) THEN NaN
    ELSE Run([r \in {ReduceAngle(a)} |->
         IF Gt(r, HalfPiNum) THEN SinSeries(Sub(PiNum, r))
             ELSE IF Lt(r, Neg(HalfPiNum)) THEN SinSeries(Sub(Neg(PiNum), r))
             ELSE SinSeries(r)])

(* Math.cos *)
Cosine(a) ==
    IF ~IsFinite(a) THEN NaN
    ELSE Run([r \in {Abs(ReduceAngle(a))} |->
         IF Gt(r, HalfPiNum) THEN Neg(CosSeries(Sub(PiNum, r)))
             ELSE CosSeries(r)])

(* atan(z) = 2 atan(z / (1 + sqrt(1 + z^2))) *)
HalveTan(z) ==
    Run([s \in {Sqrt(Add(One, Mul(z, z)))} |->
    Div(z, Add(One, s))])

(* 1/(2k-1) - z2 * h: one level of the arctangent series *)
AtanTerm(z2, k, h) == Sub(Div(One, Num(2 * k - 1)), Mul(z2, h))

(* z - z^3/3 + z^5/5 - ... + z^13/13 for |z| <= 0.2, divided by z *)
AtanSeries(z2) ==
    Run([h7 \in {AtanTerm(z2, 7, Zero)} |->
    Run([h6 \in {AtanTerm(z2, 6, h7)} |->
    Run([h5 \in {AtanTerm(z2, 5, h6)} |->
    Run([h4 \in {AtanTerm(z2, 4, h5)} |->
    Run([h3 \in {AtanTerm(z2, 3, h4)} |->
    Run([h2 \in {AtanTerm(z2, 2, h3)} |->
    Run([h1 \in {AtanTerm(z2, 1, h2)} |->
    h1])])])])])])])

(* the arctangent of z, 0 <= z <= 1 *)
AtanUnit(z) ==
    Run([h0 \in {HalveTan(z)} |->
    Run([h \in {HalveTan(h0)} |->
    Run([z2 \in {Mul(h, h)} |->
    Run([s \in {AtanSeries(z2)} |->
    Mul(Num(4), Mul(h, s))])])])])

(* Math.atan2 *)
Arctangent2(y, x) ==
    IF IsNaN(y) \/ IsNaN(x) THEN NaN
    ELSE IF IsInf(y) \/ IsInf(x) THEN
        (IF IsInf(y) /\ IsInf(x)
           THEN Mul(Num(Sign(y.m)), IF x.m > 0 THEN Div(PiNum, Num(4))
                                     ELSE Mul(Dec(75, -2), PiNum))
         ELSE IF IsInf(y) THEN Mul(Num(Sign(y.m)), HalfPiNum)
         ELSE IF x.m > 0 THEN Zero
         ELSE IF y.m < 0 THEN Neg(PiNum) ELSE PiNum)
    ELSE IF y.m = 0 THEN (IF x.m >= 0 THEN Zero ELSE PiNum)
    ELSE IF x.m = 0 THEN (IF y.m > 0 THEN HalfPiNum ELSE Neg(HalfPiNum))
    ELSE Run([ay \in {Abs(y)},
              ax \in {Abs(x)} |->
         Run([z \in {IF Le(ay, ax) THEN Div(ay, ax) ELSE Div(ax, ay)} |->
         Run([t \in {AtanUnit(z)} |->
         Run([base \in {IF Le(ay, ax) THEN t ELSE Sub(HalfPiNum, t)} |->
         Run([ang \in {IF x.m > 0 THEN base ELSE Sub(PiNum, base)} |->
         IF y.m > 0 THEN ang ELSE Neg(ang)])])])])])

(* Math.acos *)
Arccosine(c) ==
    IF IsNaN(c) \/ Gt(Abs(c), One) THEN NaN
    ELSE Run([s \in {Sqrt(Sub(One, Mul(c, c)))} |->
         Atan2(s, c)])

-----------------------------------------------------------------------------
(* constants.ts *)

XKE == Dec(74366916, -9)
XKMPER == Dec(6378135, -3)
XJ2 == Dec(1082616, -9)
XJ3 == Dec(-253881, -11)
XJ4 == Dec(-165597, -11)
CK2 == Mul(Dec(5, -1), XJ2)
CK4 == Mul(Dec(-375, -3), XJ4)
A3OVK2 == Div(Neg(XJ3), CK2)
PI == Dec(31415927, -7)
TWOPI == Mul(Num(2), PI)
DEG2RAD == Div(PI, Num(180))
AE == Num(1)
TOTHRD == Div(Num(2), Num(3))
DEEP_SPACE_THRESHOLD == Num(225)

(* Recover original mean motion and semi-major axis: the same statements open
   sgp4init, sgp8init, sdp4init and sdp8init *)
Recover(no, ecco, inclo) ==
    Run([a1 \in {PowTothrd(Div(XKE, no))},
         cosio \in {Cos(inclo)} |->
    Run([theta2 \in {Mul(cosio, cosio)} |->
    Run([x3thm1 \in {Sub(Mul(Num(3), theta2), Num(1))},
         eosq \in {Mul(ecco, ecco)} |->
    Run([betao2 \in {Sub(Num(1), eosq)} |->
    Run([betao \in {Sqrt(betao2)} |->
    Run([del1 \in {Div(Mul(Mul(Dec(15, -1), CK2), x3thm1), Mul(Mul(Mul(a1, a1), betao), betao2))} |->
    Run([ao \in {Mul(a1, Sub(Num(1), Mul(del1, Add(Mul(Dec(5, -1), TOTHRD), Mul(del1, Add(Num(1),
             Mul(Div(Num(134), Num(81)), del1)))))))} |->
    Run([delo \in {Div(Mul(Mul(Dec(15, -1), CK2), x3thm1), Mul(Mul(Mul(ao, ao), betao), betao2))} |->
    Run([xnodp \in {Div(no, Add(Num(1), delo))},
         aodp \in {Div(ao, Sub(Num(1), delo))} |->
    [a1 |-> a1, cosio |-> cosio, theta2 |-> theta2, x3thm1 |-> x3thm1, eosq |-> eosq,
        betao2 |-> betao2, betao |-> betao, del1 |-> del1, ao |-> ao, delo |-> delo,
        xnodp |-> xnodp, aodp |-> aodp]])])])])])])])])])

(* Secular rate terms, from the recovered elements r: the same statements in the
   four init functions *)
SecularRates(r) ==
    Run([theta2 \in {r.theta2},
         x3thm1 \in {r.x3thm1},
         betao \in {r.betao},
         betao2 \in {r.betao2},
         cosio \in {r.cosio},
         aodp \in {r.aodp},
         xnodp \in {r.xnodp} |->
    Run([theta4 \in {Mul(theta2, theta2)},
         pinvsq \in {Div(Num(1), Mul(Mul(Mul(aodp, aodp), betao2), betao2))} |->
    Run([temp1 \in {Mul(Mul(Mul(Num(3), CK2), pinvsq), xnodp)} |->
    Run([temp2 \in {Mul(Mul(temp1, CK2), pinvsq)},
         temp3 \in {Mul(Mul(Mul(Mul(Dec(125, -2), CK4), pinvsq), pinvsq), xnodp)} |->
    Run([xmdot \in {Add(Add(xnodp, Mul(Mul(Mul(Dec(5, -1), temp1), betao), x3thm1)),
             Mul(Mul(Mul(Dec(625, -4), temp2), betao), Add(Sub(Num(13), Mul(Num(78),
             theta2)), Mul(Num(137), theta4))))},
         x1m5th \in {Sub(Num(1), Mul(Num(5), theta2))} |->
    Run([omgdot \in {Add(Add(Mul(Mul(Dec(-5, -1), temp1), x1m5th), Mul(Mul(Dec(625, -4), temp2),
             Add(Sub(Num(7), Mul(Num(114), theta2)), Mul(Num(395), theta4)))), Mul(temp3,
             Add(Sub(Num(3), Mul(Num(36), theta2)), Mul(Num(49), theta4))))},
         xhdot1 \in {Mul(Neg(temp1), cosio)} |->
    Run([xnodot \in {Add(xhdot1, Mul(Add(Mul(Mul(Dec(5, -1), temp2), Sub(Num(4), Mul(Num(19),
             theta2))), Mul(Mul(Num(2), temp3), Sub(Num(3), Mul(Num(7), theta2)))), cosio))} |->
    [xmdot |-> xmdot, omgdot |-> omgdot, xhdot1 |-> xhdot1, xnodot |-> xnodot]])])])])])])])

(* Atmospheric drag terms s, qoms2t, tsi, eta, coef, coef1: the same statements in
   sgp4init, sgp8init and sdp8init *)
DragTerms(r, ecco) ==
    Run([aodp \in {r.aodp},
         s4 \in {Add(Div(Num(78), XKMPER), AE)},
         qoms24 \in {PowInt(Div(Sub(Num(120), Num(78)), XKMPER), 4)} |->
    Run([perige \in {Mul(Sub(Mul(aodp, Sub(Num(1), ecco)), AE), XKMPER)} |->
    Run([low \in {Lt(perige, Num(156))},
         skm \in {IF Le(perige, Num(98)) THEN Num(20) ELSE Sub(perige, Num(78))} |->
    Run([qoms2t \in {IF low THEN PowInt(Div(Sub(Num(120), skm), XKMPER), 4) ELSE qoms24},
         s \in {IF low THEN Add(Div(skm, XKMPER), AE) ELSE s4} |->
    Run([tsi \in {Div(Num(1), Sub(aodp, s))} |->
    Run([eta \in {Mul(Mul(aodp, ecco), tsi)} |->
    Run([etasq \in {Mul(eta, eta)},
         eeta \in {Mul(ecco, eta)} |->
    Run([psisq \in {Abs(Sub(Num(1), etasq))},
         coef \in {Mul(qoms2t, PowInt(tsi, 4))} |->
    Run([coef1 \in {Div(coef, Pow3p5(psisq))} |->
    [perige |-> perige, s |-> s, qoms2t |-> qoms2t, tsi |-> tsi, eta |-> eta,
        etasq |-> etasq, eeta |-> eeta, psisq |-> psisq, coef |-> coef, coef1 |-> coef1]])])])])])])])])])

(* isimp: the simplified drag mode flag of sgp4init and sgp8init *)
SimplifiedMode(aodp, ecco) ==
    IF Lt(Div(Mul(aodp, Sub(Num(1), ecco)), AE), Add(Div(Num(220), XKMPER), AE)) THEN 1 ELSE 0

(* Initialize SGP4 propagator state *)
sgp4init(elements) ==
    Run([bstar \in {elements.bstar},
         inclo \in {elements.inclo},
         nodeo \in {elements.nodeo},
         ecco \in {elements.ecco},
         argpo \in {elements.argpo},
         mo \in {elements.mo},
         no \in {elements.no} |->
    Run([r \in {Call("Recover", <<no, ecco, inclo>>)} |->
    Run([cosio \in {r.cosio},
         theta2 \in {r.theta2},
         x3thm1 \in {r.x3thm1},
         betao2 \in {r.betao2},
         xnodp \in {r.xnodp},
         aodp \in {r.aodp} |->
    Run([isimp \in {SimplifiedMode(aodp, ecco)},
         g \in {Call("DragTerms", <<r, ecco>>)} |->
    Run([s \in {g.s},
         tsi \in {g.tsi},
         eta \in {g.eta},
         etasq \in {g.etasq},
         eeta \in {g.eeta},
         psisq \in {g.psisq},
         coef \in {g.coef},
         coef1 \in {g.coef1},
         k \in {Call("SecularRates", <<r>>)} |->
    Run([xmdot \in {k.xmdot},
         omgdot \in {k.omgdot},
         xhdot1 \in {k.xhdot1},
         xnodot \in {k.xnodot},
         c2 \in {Mul(Mul(coef1, xnodp), Add(Mul(aodp, Add(Add(Num(1), Mul(Dec(15, -1), etasq)),
             Mul(eeta, Add(Num(4), etasq)))), Mul(Mul(Div(Mul(Mul(Dec(75, -2), CK2), tsi),
             psisq), x3thm1), Add(Num(8), Mul(Mul(Num(3), etasq), Add(Num(8), etasq))))))} |->
    Run([c1 \in {Mul(bstar, c2)},
         sinio \in {Sin(inclo)} |->
    Run([c3 \in {Div(Mul(Mul(Mul(Mul(Mul(coef, tsi), A3OVK2), aodp), AE), sinio), ecco)},
         x1mth2 \in {Sub(Num(1), theta2)} |->
    Run([c4 \in {Mul(Mul(Mul(Mul(Mul(Num(2), xnodp), coef1), aodp), betao2), Sub(Add(Mul(eta,
             Add(Num(2), Mul(Dec(5, -1), etasq))), Mul(ecco, Add(Dec(5, -1), Mul(Num(2),
             etasq)))), Mul(Div(Mul(Mul(Num(2), CK2), tsi), Mul(aodp, psisq)),
             Add(Mul(Mul(Num(-3), x3thm1), Add(Sub(Num(1), Mul(Num(2), eeta)), Mul(etasq,
             Sub(Dec(15, -1), Mul(Dec(5, -1), eeta))))), Mul(Mul(Mul(Dec(75, -2), x1mth2),
             Sub(Mul(Num(2), etasq), Mul(eeta, Add(Num(1), etasq)))), Cos(Mul(Num(2),
             argpo)))))))},
         c5 \in {Mul(Mul(Mul(Mul(Num(2), coef1), aodp), betao2), Add(Add(Num(1), Mul(Dec(275, -2),
             Add(etasq, eeta))), Mul(eeta, etasq)))},
         omgcof \in {Mul(Mul(bstar, c3), Cos(argpo))},
         xmcof \in {IF Gt(ecco, Dec(1, -4)) THEN Div(Mul(Mul(Mul(Neg(TOTHRD), coef), bstar), AE),
             eeta) ELSE Zero},
         xnodcf \in {Mul(Mul(Mul(Dec(35, -1), betao2), xhdot1), c1)},
         t2cof \in {Mul(Dec(15, -1), c1)},
         xlcof \in {Div(Mul(Mul(Mul(Dec(125, -3), A3OVK2), sinio), Add(Num(3), Mul(Num(5),
             cosio))), Add(Num(1), cosio))},
         aycof \in {Mul(Mul(Dec(25, -2), A3OVK2), sinio)},
         delmo \in {PowInt(Add(Num(1), Mul(eta, Cos(mo))), 3)},
         sinmo \in {Sin(mo)},
         x7thm1 \in {Sub(Mul(Num(7), theta2), Num(1))},
         c1sq \in {Mul(c1, c1)} |->
    Run([d2 \in {IF isimp = 0 THEN Mul(Mul(Mul(Num(4), aodp), tsi), c1sq) ELSE Zero} |->
    Run([temp \in {Div(Mul(Mul(d2, tsi), c1), Num(3))} |->
    Run([d3 \in {IF isimp = 0 THEN Mul(Add(Mul(Num(17), aodp), s), temp) ELSE Zero},
         d4 \in {IF isimp = 0 THEN Mul(Mul(Mul(Mul(Mul(Dec(5, -1), temp), aodp), tsi),
             Add(Mul(Num(221), aodp), Mul(Num(31), s))), c1) ELSE Zero},
         t3cof \in {IF isimp = 0 THEN Add(d2, Mul(Num(2), c1sq)) ELSE Zero} |->
    Run([t4cof \in {IF isimp = 0 THEN Mul(Dec(25, -2), Add(Mul(Num(3), d3), Mul(c1,
             Add(Mul(Num(12), d2), Mul(Num(10), c1sq))))) ELSE Zero},
         t5cof \in {IF isimp = 0 THEN Mul(Dec(2, -1), Add(Add(Add(Mul(Num(3), d4), Mul(Mul(Num(12),
             c1), d3)), Mul(Mul(Num(6), d2), d2)), Mul(Mul(Num(15), c1sq), Add(Mul(Num(2),
             d2), c1sq)))) ELSE Zero} |->
    [method |-> "n", isimp |-> isimp, aycof |-> aycof, con41 |-> x3thm1, cc1 |-> c1,
        cc4 |-> c4, cc5 |-> c5, d2 |-> d2, d3 |-> d3, d4 |-> d4, delmo |-> delmo, eta |-> eta,
        argpdot |-> omgdot, omgcof |-> omgcof, sinmao |-> sinmo, t |-> Zero, t2cof |-> t2cof,
        t3cof |-> t3cof, t4cof |-> t4cof, t5cof |-> t5cof, x1mth2 |-> x1mth2,
        x7thm1 |-> x7thm1, mdot |-> xmdot, nodedot |-> xnodot, xlcof |-> xlcof,
        xmcof |-> xmcof, nodecf |-> xnodcf, irez |-> Zero, d2201 |-> Zero, d2211 |-> Zero,
        d3210 |-> Zero, d3222 |-> Zero, d4410 |-> Zero, d4422 |-> Zero, d5220 |-> Zero,
        d5232 |-> Zero, d5421 |-> Zero, d5433 |-> Zero, dedt |-> Zero, del1 |-> Zero,
        del2 |-> Zero, del3 |-> Zero, didt |-> Zero, dmdt |-> Zero, dnodt |-> Zero,
        domdt |-> Zero, e3 |-> Zero, ee2 |-> Zero, peo |-> Zero, pgho |-> Zero, pho |-> Zero,
        pinco |-> Zero, plo |-> Zero, se2 |-> Zero, se3 |-> Zero, sgh2 |-> Zero,
        sgh3 |-> Zero, sgh4 |-> Zero, sh2 |-> Zero, sh3 |-> Zero, si2 |-> Zero, si3 |-> Zero,
        sl2 |-> Zero, sl3 |-> Zero, sl4 |-> Zero, gsto |-> Zero, xfact |-> Zero,
        xgh2 |-> Zero, xgh3 |-> Zero, xgh4 |-> Zero, xh2 |-> Zero, xh3 |-> Zero, xi2 |-> Zero,
        xi3 |-> Zero, xl2 |-> Zero, xl3 |-> Zero, xl4 |-> Zero, xlamo |-> Zero, zmol |-> Zero,
        zmos |-> Zero, atime |-> Zero, xli |-> Zero, xni |-> Zero, a |-> aodp,
        altp |-> Mul(Sub(Mul(aodp, Sub(Num(1), ecco)), AE), XKMPER),
        alta |-> Mul(Sub(Mul(aodp, Add(Num(1), ecco)), AE), XKMPER),
        epochdays |-> elements.epochDay, jdsatepoch |-> elements.jdsatepoch,
        nddot |-> elements.nddot, ndot |-> elements.ndot, bstar |-> bstar, rcse |-> Zero,
        inclo |-> inclo, nodeo |-> nodeo, ecco |-> ecco, argpo |-> argpo, mo |-> mo,
        no |-> xnodp, init |-> TRUE]])])])])])])])])])])])])])

(* Initialize SGP8 propagator *)
sgp8init(elements) ==
    Run([bstar \in {elements.bstar},
         inclo \in {elements.inclo},
         nodeo \in {elements.nodeo},
         ecco \in {elements.ecco},
         argpo \in {elements.argpo},
         mo \in {elements.mo},
         no \in {elements.no} |->
    Run([r \in {Call("Recover", <<no, ecco, inclo>>)} |->
    Run([cosio \in {r.cosio},
         theta2 \in {r.theta2},
         x3thm1 \in {r.x3thm1},
         betao2 \in {r.betao2},
         xnodp \in {r.xnodp},
         aodp \in {r.aodp} |->
    Run([isimp \in {SimplifiedMode(aodp, ecco)},
         g \in {Call("DragTerms", <<r, ecco>>)} |->
    Run([s \in {g.s},
         tsi \in {g.tsi},
         eta \in {g.eta},
         etasq \in {g.etasq},
         eeta \in {g.eeta},
         psisq \in {g.psisq},
         coef \in {g.coef},
         coef1 \in {g.coef1},
         k \in {Call("SecularRates", <<r>>)} |->
    Run([xmdot \in {k.xmdot},
         omgdot \in {k.omgdot},
         xhdot1 \in {k.xhdot1},
         xnodot \in {k.xnodot},
         c2 \in {Mul(Mul(coef1, xnodp), Add(Mul(aodp, Add(Add(Num(1), Mul(Dec(15, -1), etasq)),
             Mul(eeta, Add(Num(4), etasq)))), Mul(Mul(Div(Mul(Mul(Dec(75, -2), CK2), tsi),
             psisq), x3thm1), Add(Num(8), Mul(Mul(Num(3), etasq), Add(Num(8), etasq))))))} |->
    Run([c1 \in {Mul(bstar, c2)},
         sinio \in {Sin(inclo)},
         a3ovk2 \in {Mul(Num(-1), A3OVK2)} |->
    Run([c3 \in {Div(Mul(Mul(Mul(Mul(Mul(coef, tsi), a3ovk2), xnodp), AE), sinio), ecco)},
         x1mth2 \in {Sub(Num(1), theta2)} |->
    Run([c4 \in {Mul(Mul(Mul(Mul(Mul(Num(2), xnodp), coef1), aodp), betao2), Sub(Add(Mul(eta,
             Add(Num(2), Mul(Dec(5, -1), etasq))), Mul(ecco, Add(Dec(5, -1), Mul(Num(2),
             etasq)))), Mul(Div(Mul(Mul(Num(2), CK2), tsi), Mul(aodp, psisq)),
             Add(Mul(Mul(Num(-3), x3thm1), Add(Sub(Num(1), Mul(Num(2), eeta)), Mul(etasq,
             Sub(Dec(15, -1), Mul(Dec(5, -1), eeta))))), Mul(Mul(Mul(Dec(75, -2), x1mth2),
             Sub(Mul(Num(2), etasq), Mul(eeta, Add(Num(1), etasq)))), Cos(Mul(Num(2),
             argpo)))))))},
         c5 \in {Mul(Mul(Mul(Mul(Num(2), coef1), aodp), betao2), Add(Add(Num(1), Mul(Dec(275, -2),
             Add(etasq, eeta))), Mul(eeta, etasq)))},
         omgcof \in {Mul(Mul(bstar, c3), Cos(argpo))},
         xmcof \in {IF Gt(ecco, Dec(1, -4)) THEN Div(Mul(Mul(Mul(Neg(TOTHRD), coef), bstar), AE),
             eeta) ELSE Zero},
         xnodcf \in {Mul(Mul(Mul(Dec(35, -1), betao2), xhdot1), c1)},
         t2cof \in {Mul(Dec(15, -1), c1)},
         xlcof \in {Div(Mul(Mul(Mul(Dec(125, -3), a3ovk2), sinio), Add(Num(3), Mul(Num(5),
             cosio))), Add(Num(1), cosio))},
         aycof \in {Mul(Mul(Dec(25, -2), a3ovk2), sinio)},
         delmo \in {PowInt(Add(Num(1), Mul(eta, Cos(mo))), 3)},
         sinmo \in {Sin(mo)},
         x7thm1 \in {Sub(Mul(Num(7), theta2), Num(1))},
         c1sq \in {Mul(c1, c1)} |->
    Run([d2 \in {IF isimp = 0 THEN Mul(Mul(Mul(Num(4), aodp), tsi), c1sq) ELSE Zero} |->
    Run([temp \in {Div(Mul(Mul(d2, tsi), c1), Num(3))} |->
    Run([d3 \in {IF isimp = 0 THEN Mul(Add(Mul(Num(17), aodp), s), temp) ELSE Zero},
         d4 \in {IF isimp = 0 THEN Mul(Mul(Mul(Mul(Mul(Dec(5, -1), temp), aodp), tsi),
             Add(Mul(Num(221), aodp), Mul(Num(31), s))), c1) ELSE Zero},
         t3cof \in {IF isimp = 0 THEN Add(d2, Mul(Num(2), c1sq)) ELSE Zero} |->
    Run([t4cof \in {IF isimp = 0 THEN Mul(Dec(25, -2), Add(Mul(Num(3), d3), Mul(c1,
             Add(Mul(Num(12), d2), Mul(Num(10), c1sq))))) ELSE Zero},
         t5cof \in {IF isimp = 0 THEN Mul(Dec(2, -1), Add(Add(Add(Mul(Num(3), d4), Mul(Mul(Num(12),
             c1), d3)), Mul(Mul(Num(6), d2), d2)), Mul(Mul(Num(15), c1sq), Add(Mul(Num(2),
             d2), c1sq)))) ELSE Zero} |->
    [aodp |-> aodp, xnodp |-> xnodp, c1 |-> c1, c4 |-> c4, c5 |-> c5, d2 |-> d2, d3 |-> d3,
        d4 |-> d4, xmdot |-> xmdot, omgdot |-> omgdot, xnodot |-> xnodot, t2cof |-> t2cof,
        t3cof |-> t3cof, t4cof |-> t4cof, t5cof |-> t5cof, xlcof |-> xlcof, aycof |-> aycof,
        x3thm1 |-> x3thm1, x1mth2 |-> x1mth2, x7thm1 |-> x7thm1, cosio |-> cosio,
        sinio |-> sinio, eta |-> eta, sinmo |-> sinmo, delmo |-> delmo, xmcof |-> xmcof,
        omgcof |-> omgcof, xnodcf |-> xnodcf, isimp |-> isimp]])])])])])])])])])])])])])

-----------------------------------------------------------------------------
(* deep-space.ts *)

ZNS == Dec(119459, -10)
ZES == Dec(1675, -5)
ZNL == Dec(15835218, -11)
ZEL == Dec(549, -4)

(* Greenwich sidereal time *)
gstime(jd) ==
    Run([tut1 \in {Div(Sub(jd, Num(2451545)), Num(36525))} |->
    Run([temp \in {Add(Add(Add(Mul(Mul(Mul(Dec(-62, -7), tut1), tut1), tut1), Mul(Mul(Dec(93104,
             -6), tut1), tut1)), Mul(Add(Mul(Num(876600), Num(3600)), Dec(86401848, -1)),
             tut1)), Dec(67310548, -3))} |->
    Run([wrapped \in {Fmod(Div(Mul(temp, DEG2RAD), Num(240)), TWOPI)} |->
    IF Lt(wrapped, Zero) THEN Add(wrapped, TWOPI) ELSE wrapped])])])

(* Resonance with only the 24-hour band tested *)
ResonanceSynchronousOnly(period) ==
    [iresfl |-> Ge(period, Num(1200)), isynfl |-> Ge(period, Num(1200))]

(* Check for resonance (12-hour or 24-hour period) *)
Resonance(period) ==
    IF Ge(period, Num(1200)) THEN [iresfl |-> TRUE, isynfl |-> TRUE]
    ELSE IF Ge(period, Num(600)) /\ Le(period, Num(800)) THEN [iresfl |-> TRUE, isynfl |-> FALSE]
    ELSE [iresfl |-> FALSE, isynfl |-> FALSE]

(* Initialize deep-space perturbations *)
dsinit(epoch, xnodp, ecco, inclo, nodeo, argpo, mo) ==
    Run([cosim \in {Cos(inclo)},
         sinim \in {Sin(inclo)},
         day \in {Add(Sub(epoch, Dec(24332815, -1)), Dec(182615, -1))} |->
    Run([xms \in {Add(Dec(62565837, -7), Mul(Dec(17201977, -9), day))} |->
    Run([zmos \in {Fmod(Add(Fmod(xms, TWOPI), TWOPI), TWOPI)},
         xlms \in {Add(Dec(47199672, -7), Mul(Dec(2299715, -7), day))} |->
    Run([zmol \in {Fmod(Add(Fmod(xlms, TWOPI), TWOPI), TWOPI)},
         sinc \in {sinim},
         cosc \in {cosim} |->
    Run([cosi2 \in {Mul(cosc, cosc)},
         period \in {Div(TWOPI, xnodp)} |->
    Run([flags \in {Resonance(period)} |->
    [thgr |-> gstime(epoch), xnq |-> xnodp, xqncl |-> inclo, omegaq |-> argpo,
        zmol |-> zmol, zmos |-> zmos, peo |-> Zero, pinco |-> Zero, plo |-> Zero,
        pgho |-> Zero, pho |-> Zero,
        se2 |-> Div(Mul(Mul(Mul(Mul(Mul(Neg(ZNS), Dec(15, -1)), sinc), cosc), ZES), Num(2)), xnodp),
        se3 |-> Div(Mul(Mul(Mul(Mul(Neg(ZNS), Num(3)), sinc), cosc), ZES), xnodp),
        si2 |-> Div(Mul(Mul(Mul(Mul(ZNS, Dec(5, -1)), sinc), Sub(Num(1), Mul(Num(5), cosi2))), ZES), xnodp),
        si3 |-> Div(Mul(Mul(Mul(ZNS, sinc), Sub(Num(1), Mul(Num(5), cosi2))), ZES), xnodp),
        sl2 |-> Div(Mul(Neg(ZNS), Dec(5, -1)), xnodp), sl3 |-> Div(Neg(ZNS), xnodp),
        sl4 |-> Div(Mul(Neg(ZNS), Num(2)), xnodp),
        sgh2 |-> Div(Mul(Mul(ZNS, cosc), ZES), xnodp),
        sgh3 |-> Div(Mul(Mul(Mul(ZNS, Num(2)), cosc), ZES), xnodp),
        sgh4 |-> Div(Mul(Mul(Neg(ZNS), Num(2)), ZES), xnodp),
        sh2 |-> Div(Mul(Mul(Neg(ZNS), sinc), ZES), xnodp),
        sh3 |-> Div(Mul(Mul(Mul(Neg(ZNS), Num(2)), sinc), ZES), xnodp),
        ee2 |-> Div(Mul(Mul(Num(2), ZNL), ZEL), xnodp),
        e3 |-> Div(Mul(Mul(Num(2), ZNL), ZEL), xnodp),
        xi2 |-> Div(Mul(Mul(Num(2), ZNL), ZEL), xnodp),
        xi3 |-> Div(Mul(Mul(Num(2), ZNL), ZEL), xnodp), xl2 |-> Div(Mul(Num(-2), ZNL), xnodp),
        xl3 |-> Div(Mul(Num(-2), ZNL), xnodp), xl4 |-> Div(Mul(Num(-2), ZNL), xnodp),
        xgh2 |-> Div(Mul(Mul(Num(2), ZNL), ZEL), xnodp),
        xgh3 |-> Div(Mul(Mul(Num(2), ZNL), ZEL), xnodp),
        xgh4 |-> Div(Mul(Mul(Num(-2), ZNL), ZEL), xnodp),
        xh2 |-> Div(Mul(Mul(Num(-2), ZNL), ZEL), xnodp),
        xh3 |-> Div(Mul(Mul(Num(-2), ZNL), ZEL), xnodp), d2201 |-> Zero, d2211 |-> Zero,
        d3210 |-> Zero, d3222 |-> Zero, d4410 |-> Zero, d4422 |-> Zero, d5220 |-> Zero,
        d5232 |-> Zero, d5421 |-> Zero, d5433 |-> Zero, del1 |-> Zero, del2 |-> Zero,
        del3 |-> Zero, xlamo |-> Zero, xfact |-> Zero, xli |-> IF flags.iresfl THEN mo ELSE Zero,
        xni |-> IF flags.iresfl THEN xnodp ELSE Zero, atime |-> Zero,
        iresfl |-> flags.iresfl, isynfl |-> flags.isynfl, dedt |-> Mul(Mul(ZNS, ZES), Dec(5, -7)),
        didt |-> Mul(ZNS, Dec(1, -7)), dmdt |-> Mul(ZNS, Dec(1, -6)),
        domdt |-> Mul(ZNS, Dec(5, -7)), dnodt |-> Mul(ZNL, Dec(2, -7))]])])])])])])

(* Deep-space secular effects: the value dssec returns *)
dssec(ds, t, ecco, inclo, nodeo, argpo, mo) ==
    Run([zms \in {Add(ds.zmos, Mul(ZNS, t))},
         zml \in {Add(ds.zmol, Mul(ZNL, t))} |->
    Run([f2s \in {Sub(Mul(Mul(Dec(5, -1), Sin(zms)), Sin(zms)), Dec(25, -2))},
         f3s \in {Mul(Mul(Dec(-5, -1), Sin(zms)), Cos(zms))},
         sinzs \in {Sin(zms)},
         f2l \in {Sub(Mul(Mul(Dec(5, -1), Sin(zml)), Sin(zml)), Dec(25, -2))},
         f3l \in {Mul(Mul(Dec(-5, -1), Sin(zml)), Cos(zml))},
         sinzl \in {Sin(zml)} |->
    Run([pe \in {Add(Add(Mul(ds.se2, f2s), Mul(ds.se3, f3s)), Add(Mul(ds.ee2, f2l), Mul(ds.e3,
             f3l)))},
         pinc \in {Add(Add(Mul(ds.si2, f2s), Mul(ds.si3, f3s)), Add(Mul(ds.xi2, f2l), Mul(ds.xi3,
             f3l)))},
         pl \in {Add(Add(Add(Mul(ds.sl2, f2s), Mul(ds.sl3, f3s)), Mul(ds.sl4, sinzs)),
             Add(Add(Mul(ds.xl2, f2l), Mul(ds.xl3, f3l)), Mul(ds.xl4, sinzl)))},
         pgh \in {Add(Add(Add(Mul(ds.sgh2, f2s), Mul(ds.sgh3, f3s)), Mul(ds.sgh4, sinzs)),
             Add(Add(Mul(ds.xgh2, f2l), Mul(ds.xgh3, f3l)), Mul(ds.xgh4, sinzl)))},
         ph \in {Add(Add(Mul(ds.sh2, f2s), Mul(ds.sh3, f3s)), Add(Mul(ds.xh2, f2l), Mul(ds.xh3,
             f3l)))} |->
    Run([e \in {Add(Add(ecco, Mul(ds.dedt, t)), pe)},
         xinc \in {Add(Add(inclo, Mul(ds.didt, t)), pinc)},
         omgadf \in {Add(Add(argpo, Mul(ds.domdt, t)), pgh)},
         xnode \in {Add(Add(nodeo, Mul(ds.dnodt, t)), ph)},
         xmam0 \in {Add(Add(mo, Mul(ds.dmdt, t)), pl)} |->
    Run([xmam1 \in {Fmod(xmam0, TWOPI)} |->
    Run([xmam \in {IF Lt(xmam1, Zero) THEN Add(xmam1, TWOPI) ELSE xmam1} |->
    [e |-> e, xinc |-> xinc, omgadf |-> omgadf, xnode |-> xnode, xmam |-> xmam]])])])])])])

(* dsper leaving a resonant orbit to the integrator: no corrections when iresfl *)
dsperUnlessResonant(ds, t, em, xinc, omgadf, xnode, xmam) ==
    IF ds.iresfl
    THEN [em |-> em, xinc |-> xinc, omgadf |-> omgadf, xnode |-> xnode, xmam |-> xmam]
    ELSE
    Run([zms \in {Add(ds.zmos, Mul(ZNS, t))},
         zml \in {Add(ds.zmol, Mul(ZNL, t))} |->
    Run([pe \in {Add(Mul(Dec(1, -8), Sin(zms)), Mul(Dec(5, -9), Sin(zml)))},
         pinc \in {Mul(Dec(1, -9), Cos(zms))},
         pl \in {Mul(Dec(1, -7), Sin(Mul(Num(2), zms)))},
         pgh \in {Mul(Dec(1, -8), Sin(zms))},
         ph \in {Mul(Dec(5, -9), Sin(zml))} |->
    Run([em1 \in {Add(em, pe)},
         xinc1 \in {Add(xinc, pinc)},
         omgadf1 \in {Add(omgadf, pgh)},
         xnode1 \in {Add(xnode, ph)},
         xmam1 \in {Add(xmam, pl)} |->
    Run([retro \in {Lt(xinc1, Zero)} |->
    [em |-> em1, xinc |-> IF retro THEN Neg(xinc1) ELSE xinc1,
        omgadf |-> IF retro THEN Sub(omgadf1, PI) ELSE omgadf1,
        xnode |-> IF retro THEN Add(xnode1, PI) ELSE xnode1, xmam |-> xmam1]])])])])

(* Deep-space periodics: the value dsper returns *)
dsper(ds, t, em, xinc, omgadf, xnode, xmam) ==
    Run([zms \in {Add(ds.zmos, Mul(ZNS, t))},
         zml \in {Add(ds.zmol, Mul(ZNL, t))} |->
    Run([pe \in {Add(Mul(Dec(1, -8), Sin(zms)), Mul(Dec(5, -9), Sin(zml)))},
         pinc \in {Mul(Dec(1, -9), Cos(zms))},
         pl \in {Mul(Dec(1, -7), Sin(Mul(Num(2), zms)))},
         pgh \in {Mul(Dec(1, -8), Sin(zms))},
         ph \in {Mul(Dec(5, -9), Sin(zml))} |->
    Run([em1 \in {Add(em, pe)},
         xinc1 \in {Add(xinc, pinc)},
         omgadf1 \in {Add(omgadf, pgh)},
         xnode1 \in {Add(xnode, ph)},
         xmam1 \in {Add(xmam, pl)} |->
    Run([retro \in {Lt(xinc1, Zero)} |->
    [em |-> em1, xinc |-> IF retro THEN Neg(xinc1) ELSE xinc1,
        omgadf |-> IF retro THEN Sub(omgadf1, PI) ELSE omgadf1,
        xnode |-> IF retro THEN Add(xnode1, PI) ELSE xnode1, xmam |-> xmam1]])])])])

(* Initialize SDP4 propagator *)
sdp4init(elements) ==
    Run([bstar \in {elements.bstar},
         inclo \in {elements.inclo},
         nodeo \in {elements.nodeo},
         ecco \in {elements.ecco},
         argpo \in {elements.argpo},
         mo \in {elements.mo},
         no \in {elements.no},
         jdsatepoch \in {elements.jdsatepoch} |->
    Run([r \in {Call("Recover", <<no, ecco, inclo>>)} |->
    Run([cosio \in {r.cosio},
         theta2 \in {r.theta2},
         x3thm1 \in {r.x3thm1},
         betao \in {r.betao},
         betao2 \in {r.betao2},
         delo \in {r.delo},
         xnodp \in {r.xnodp},
         aodp \in {r.aodp},
         sinio \in {Sin(inclo)} |->
    Run([x1mth2 \in {Sub(Num(1), theta2)},
         x7thm1 \in {Sub(Mul(Num(7), theta2), Num(1))},
         k \in {Call("SecularRates", <<r>>)} |->
    Run([xmdot \in {k.xmdot},
         omgdot \in {k.omgdot},
         xhdot1 \in {k.xhdot1},
         xnodot \in {k.xnodot},
         a3ovk2 \in {Mul(Num(-1), A3OVK2)} |->
    Run([xlcof \in {Div(Mul(Mul(Mul(Dec(125, -3), a3ovk2), sinio), Add(Num(3), Mul(Num(5),
             cosio))), Add(Num(1), cosio))},
         aycof \in {Mul(Mul(Dec(25, -2), a3ovk2), sinio)},
         xnodcf \in {Mul(Mul(Mul(Dec(35, -1), betao2), xhdot1), Div(bstar, Add(Num(1), delo)))},
         t2cof \in {Mul(Dec(15, -1), Div(bstar, Add(Num(1), delo)))},
         ds \in {Call("dsinit", <<jdsatepoch, xnodp, ecco, inclo, nodeo, argpo, mo>>)} |->
    [aodp |-> aodp, xnodp |-> xnodp, xmdot |-> xmdot, omgdot |-> omgdot, xnodot |-> xnodot,
        xnodcf |-> xnodcf, t2cof |-> t2cof, xlcof |-> xlcof, aycof |-> aycof,
        x3thm1 |-> x3thm1, x1mth2 |-> x1mth2, x7thm1 |-> x7thm1, cosio |-> cosio,
        sinio |-> sinio, betao |-> betao, betao2 |-> betao2, ds |-> ds]])])])])])])

(* Initialize SDP8 propagator *)
sdp8init(elements) ==
    Run([bstar \in {elements.bstar},
         inclo \in {elements.inclo},
         nodeo \in {elements.nodeo},
         ecco \in {elements.ecco},
         argpo \in {elements.argpo},
         mo \in {elements.mo},
         no \in {elements.no},
         jdsatepoch \in {elements.jdsatepoch} |->
    Run([r \in {Call("Recover", <<no, ecco, inclo>>)} |->
    Run([cosio \in {r.cosio},
         theta2 \in {r.theta2},
         x3thm1 \in {r.x3thm1},
         betao \in {r.betao},
         betao2 \in {r.betao2},
         delo \in {r.delo},
         xnodp \in {r.xnodp},
         aodp \in {r.aodp},
         sinio \in {Sin(inclo)} |->
    Run([x1mth2 \in {Sub(Num(1), theta2)},
         x7thm1 \in {Sub(Mul(Num(7), theta2), Num(1))},
         k \in {Call("SecularRates", <<r>>)} |->
    Run([xmdot \in {k.xmdot},
         omgdot \in {k.omgdot},
         xhdot1 \in {k.xhdot1},
         xnodot \in {k.xnodot},
         g \in {Call("DragTerms", <<r, ecco>>)} |->
    Run([eta \in {g.eta},
         etasq \in {g.etasq},
         eeta \in {g.eeta},
         coef1 \in {g.coef1} |->
    Run([c1 \in {Mul(Mul(Mul(Mul(Mul(Dec(5, -1), bstar), coef1), xnodp), aodp), Add(Add(Num(1),
             Mul(Dec(25, -1), etasq)), Mul(eeta, Add(Num(4), etasq))))},
         pp \in {Mul(aodp, betao2)} |->
    Run([gamma \in {Div(bstar, Mul(Num(2), pp))},
         edot \in {Mul(Neg(c1), Sub(Num(1), ecco))},
         a3ovk2 \in {Mul(Num(-1), A3OVK2)} |->
    Run([xlcof \in {Div(Mul(Mul(Mul(Dec(125, -3), a3ovk2), sinio), Add(Num(3), Mul(Num(5),
             cosio))), Add(Num(1), cosio))},
         aycof \in {Mul(Mul(Dec(25, -2), a3ovk2), sinio)},
         ds \in {Call("dsinit", <<jdsatepoch, xnodp, ecco, inclo, nodeo, argpo, mo>>)} |->
    [aodp |-> aodp, xnodp |-> xnodp, xmdot |-> xmdot, omgdot |-> omgdot, xnodot |-> xnodot,
        pp |-> pp, gamma |-> gamma, xlcof |-> xlcof, aycof |-> aycof, x3thm1 |-> x3thm1,
        x1mth2 |-> x1mth2, x7thm1 |-> x7thm1, cosio |-> cosio, sinio |-> sinio, eta |-> eta,
        edot |-> edot, ds |-> ds]])])])])])])])])])

-----------------------------------------------------------------------------
(* Propagation results (types.ts PropagationResult) *)

ZeroState == [x |-> Zero, y |-> Zero, z |-> Zero, xdot |-> Zero, ydot |-> Zero, zdot |-> Zero]

(* ErrorResult with the flag left false: a result that is neither of the two shapes *)
ErrorResultFlagFalse(tsince, algorithm, errorMessage) ==
    [state |-> ZeroState, tsince |-> tsince, algorithm |-> algorithm, error |-> FALSE,
     errorMessage |-> errorMessage]

(* return { state: { x: 0, ... }, tsince, algorithm, error: true, errorMessage } *)
ErrorResult(tsince, algorithm, errorMessage) ==
    [state |-> ZeroState, tsince |-> tsince, algorithm |-> algorithm, error |-> TRUE,
     errorMessage |-> errorMessage]

(* return { state: { x, y, z, xdot, ydot, zdot }, tsince, algorithm, error: false } *)
OkResult(sv, tsince, algorithm) ==
    [state |-> sv, tsince |-> tsince, algorithm |-> algorithm, error |-> FALSE]

(* decayCheck without the test of the semi-major axis *)
decayCheckEccentricityOnly(a, e) ==
    Ge(e, Num(1)) \/ Lt(e, Dec(-1, -3))

(* decayCheck with the floor of the semi-major axis at half an Earth radius *)
decayCheckLowFloor(a, e) ==
    Lt(a, Dec(5, -1)) \/ Ge(e, Num(1)) \/ Lt(e, Dec(-1, -3))

(* Check for decay, as sgp4 and sgp8 write it *)
decayCheck(a, e) ==
    Lt(a, Dec(95, -2)) \/ Ge(e, Num(1)) \/ Lt(e, Dec(-1, -3))

(* Check for decay, as sdp4 and sdp8 write it *)
deepDecayCheck(em) ==
    Ge(em, Num(1)) \/ Lt(em, Dec(-1, -3))

(* if (pl < 0.0) return the 'Semi-latus rectum is negative' result *)
plCheck(pl) ==
    Lt(pl, Zero)

(* Clamp the Newton step for stability *)
clampStep(tem5) ==
    IF Ge(Abs(tem5), Dec(95, -2))
    THEN (IF Gt(tem5, Zero) THEN Dec(95, -2) ELSE Dec(-95, -2))
    ELSE tem5

(* The step an iteration adds to eo1: the Newton step, clamped *)
NewtonStep(capu, axn, ayn, eo1) ==
    Run([sineo1 \in {Sin(eo1)},
         coseo1 \in {Cos(eo1)} |->
    Run([den \in {Sub(Sub(Num(1), Mul(coseo1, axn)), Mul(sineo1, ayn))} |->
    Run([raw \in {Div(Sub(Add(Sub(capu, Mul(ayn, coseo1)), Mul(axn, sineo1)), eo1), den)} |->
    clampStep(raw)])])])

(* KeplerStep leaving the loop at a step below 1e-6 *)
KeplerStepLoose(capu, axn, ayn, k) ==
    IF k.done THEN k
    ELSE Run([tem5 \in {NewtonStep(capu, axn, ayn, k.eo1)} |->
         [eo1 |-> Add(k.eo1, tem5), iters |-> k.iters + 1,
          done |-> Lt(Abs(tem5), Dec(1, -6))]])

(* Solve Kepler's equation (Newton-Raphson iteration): one pass through the body of
   the for loop; k is [eo1, iters, done], done after the break *)
KeplerStep(capu, axn, ayn, k) ==
    IF k.done THEN k
    ELSE Run([tem5 \in {NewtonStep(capu, axn, ayn, k.eo1)} |->
         [eo1 |-> Add(k.eo1, tem5), iters |-> k.iters + 1,
          done |-> Lt(Abs(tem5), Dec(1, -12))]])

(* for (let i = 0; i < 10; i++) { ... }: at most ten passes *)
KeplerLoopFrom(capu, axn, ayn, k) ==
    IF k.iters >= 10 \/ k.done THEN k
    ELSE Run([k1 \in {KeplerStep(capu, axn, ayn, k)} |->
         KeplerLoopFrom(capu, axn, ayn, k1)])

KeplerLoop(capu, axn, ayn) ==
    KeplerLoopFrom(capu, axn, ayn, [eo1 |-> capu, iters |-> 0, done |-> FALSE])

(* Long period periodics and the starting value of Kepler's equation: the same
   statements in the four evaluate functions *)
LongPeriod(a, em, omega, xl, xnode, xlcof, aycof) ==
    Run([beta \in {Sqrt(Sub(Num(1), Mul(em, em)))},
         axn \in {Mul(em, Cos(omega))} |->
    Run([temp \in {Div(Num(1), Mul(Mul(a, beta), beta))} |->
    Run([xlp \in {Mul(Mul(temp, xlcof), axn)},
         aynl \in {Mul(temp, aycof)} |->
    Run([xlt \in {Add(xl, xlp)},
         ayn \in {Add(Mul(em, Sin(omega)), aynl)} |->
    Run([capu \in {Fmod(Sub(xlt, xnode), TWOPI)} |->
    [axn |-> axn, ayn |-> ayn, capu |-> capu]])])])])])

(* Short period preliminary quantities up to the semi-latus rectum pl *)
ShortPrelim(a, axn, ayn, epw) ==
    Run([sinepw \in {Sin(epw)},
         cosepw \in {Cos(epw)} |->
    Run([ecose \in {Add(Mul(axn, cosepw), Mul(ayn, sinepw))},
         esine \in {Sub(Mul(axn, sinepw), Mul(ayn, cosepw))},
         elsq \in {Add(Mul(axn, axn), Mul(ayn, ayn))} |->
    Run([pl \in {Mul(a, Sub(Num(1), elsq))} |->
    [sinepw |-> sinepw, cosepw |-> cosepw, ecose |-> ecose, esine |-> esine, elsq |-> elsq,
        pl |-> pl]])])])

(* Orientation vectors, position and velocity in km and km/s: the same statements
   close the four evaluate functions *)
Orientation(rk, uk, xnodek, xinck, rdotk, rfdotk) ==
    Run([sinuk \in {Sin(uk)},
         cosuk \in {Cos(uk)},
         sinik \in {Sin(xinck)},
         cosik \in {Cos(xinck)},
         sinnok \in {Sin(xnodek)},
         cosnok \in {Cos(xnodek)} |->
    Run([xmx \in {Mul(Neg(sinnok), cosik)},
         xmy \in {Mul(cosnok, cosik)} |->
    Run([ux \in {Add(Mul(xmx, sinuk), Mul(cosnok, cosuk))},
         uy \in {Add(Mul(xmy, sinuk), Mul(sinnok, cosuk))},
         uz \in {Mul(sinik, sinuk)},
         vx \in {Sub(Mul(xmx, cosuk), Mul(cosnok, sinuk))},
         vy \in {Sub(Mul(xmy, cosuk), Mul(sinnok, sinuk))},
         vz \in {Mul(sinik, cosuk)} |->
    Run([x \in {Mul(Mul(rk, ux), XKMPER)},
         y \in {Mul(Mul(rk, uy), XKMPER)},
         z \in {Mul(Mul(rk, uz), XKMPER)},
         xdot \in {Div(Mul(Add(Mul(rdotk, ux), Mul(rfdotk, vx)), XKMPER), Num(60))},
         ydot \in {Div(Mul(Add(Mul(rdotk, uy), Mul(rfdotk, vy)), XKMPER), Num(60))},
         zdot \in {Div(Mul(Add(Mul(rdotk, uz), Mul(rfdotk, vz)), XKMPER), Num(60))} |->
    [x |-> x, y |-> y, z |-> z, xdot |-> xdot, ydot |-> ydot, zdot |-> zdot]])])])])

(* Short period periodics as sgp4 writes them (a/r scaling, temp6 = esine/(1+betal));
   xinc is the inclination the corrections are added to, xn the mean motion *)
ShortPeriod4(p, a, xn, axn, ayn, xnode, xinc, cosio, sinio, x3thm1, x1mth2, x7thm1) ==
    Run([sinepw \in {p.sinepw},
         cosepw \in {p.cosepw},
         ecose \in {p.ecose},
         esine \in {p.esine},
         elsq \in {p.elsq},
         pl \in {p.pl} |->
    Run([r \in {Mul(a, Sub(Num(1), ecose))} |->
    Run([rdot \in {Div(Mul(Mul(XKE, Sqrt(a)), esine), r)},
         rfdot \in {Div(Mul(XKE, Sqrt(pl)), r)},
         betal \in {Sqrt(Sub(Num(1), elsq))} |->
    Run([temp6 \in {Div(esine, Add(Num(1), betal))},
         aOverR \in {Div(a, r)} |->
    Run([cosu \in {Mul(aOverR, Add(Sub(cosepw, axn), Mul(ayn, temp6)))},
         sinu \in {Mul(aOverR, Sub(Sub(sinepw, ayn), Mul(axn, temp6)))} |->
    Run([u \in {Atan2(sinu, cosu)},
         sin2u \in {Mul(Mul(Num(2), sinu), cosu)},
         cos2u \in {Sub(Mul(Mul(Num(2), cosu), cosu), Num(1))},
         temp7 \in {Div(Num(1), pl)} |->
    Run([temp8 \in {Mul(CK2, temp7)} |->
    Run([temp9 \in {Mul(temp8, temp7)} |->
    Run([rk \in {Add(Mul(r, Sub(Num(1), Mul(Mul(Mul(Dec(15, -1), temp9), betal), x3thm1))),
             Mul(Mul(Mul(Dec(5, -1), temp8), x1mth2), cos2u))},
         uk \in {Sub(u, Mul(Mul(Mul(Dec(25, -2), temp9), x7thm1), sin2u))},
         xnodek \in {Add(xnode, Mul(Mul(Mul(Dec(15, -1), temp9), cosio), sin2u))},
         xinck \in {Add(xinc, Mul(Mul(Mul(Mul(Dec(15, -1), temp9), cosio), sinio), cos2u))},
         rdotk \in {Sub(rdot, Mul(Mul(Mul(xn, temp8), x1mth2), sin2u))},
         rfdotk \in {Add(rfdot, Mul(Mul(xn, temp8), Add(Mul(x1mth2, cos2u), Mul(Dec(15, -1),
             x3thm1))))} |->
    Orientation(rk, uk, xnodek, xinck, rdotk, rfdotk)])])])])])])])])])

(* Short period periodics as sgp8, sdp4 and sdp8 write them (1/r scaling,
   temp6 = betal/(1+betal)) *)
ShortPeriod8(p, a, xn, axn, ayn, xnode, xinc, cosio, sinio, x3thm1, x1mth2, x7thm1) ==
    Run([sinepw \in {p.sinepw},
         cosepw \in {p.cosepw},
         ecose \in {p.ecose},
         esine \in {p.esine},
         elsq \in {p.elsq},
         pl \in {p.pl} |->
    Run([r \in {Mul(a, Sub(Num(1), ecose))} |->
    Run([invr \in {Div(Num(1), r)} |->
    Run([rdot \in {Mul(Mul(Mul(XKE, Sqrt(a)), esine), invr)},
         rfdot \in {Mul(Mul(XKE, Sqrt(pl)), invr)},
         betal \in {Sqrt(Sub(Num(1), elsq))} |->
    Run([temp6 \in {Div(betal, Add(Num(1), betal))} |->
    Run([cosu \in {Mul(invr, Add(Sub(cosepw, axn), Mul(Mul(ayn, esine), temp6)))},
         sinu \in {Mul(invr, Sub(Sub(sinepw, ayn), Mul(Mul(axn, esine), temp6)))} |->
    Run([u \in {Atan2(sinu, cosu)},
         sin2u \in {Mul(Mul(Num(2), sinu), cosu)},
         cos2u \in {Sub(Mul(Mul(Num(2), cosu), cosu), Num(1))},
         temp7 \in {Div(Num(1), pl)} |->
    Run([temp8 \in {Mul(CK2, temp7)} |->
    Run([temp9 \in {Mul(temp8, temp7)} |->
    Run([rk \in {Add(Mul(r, Sub(Num(1), Mul(Mul(Mul(Dec(15, -1), temp9), betal), x3thm1))),
             Mul(Mul(Mul(Dec(5, -1), temp8), x1mth2), cos2u))},
         uk \in {Sub(u, Mul(Mul(Mul(Dec(25, -2), temp9), x7thm1), sin2u))},
         xnodek \in {Add(xnode, Mul(Mul(Mul(Dec(15, -1), temp9), cosio), sin2u))},
         xinck \in {Add(xinc, Mul(Mul(Mul(Mul(Dec(15, -1), temp9), cosio), sinio), cos2u))},
         rdotk \in {Sub(rdot, Mul(Mul(Mul(xn, temp8), x1mth2), sin2u))},
         rfdotk \in {Add(rfdot, Mul(Mul(xn, temp8), Add(Mul(x1mth2, cos2u), Mul(Dec(15, -1),
             x3thm1))))} |->
    Orientation(rk, uk, xnodek, xinck, rdotk, rfdotk)])])])])])])])])])])

(* From the eccentricity clamp to the returned result: long period periodics,
   Kepler's equation, the semi-latus rectum check and the short period periodics.
   variant 4 is sgp4's short period block, 8 the one of sgp8, sdp4 and sdp8 *)
Continue(variant, algorithm, tsince, a, e, omega, xl, xnode, xinc, cosio, sinio, c) ==
    Run([em \in {Max(e, Dec(1, -6))},
         xn \in {Div(XKE, Pow1p5(a))} |->
    Run([lp \in {LongPeriod(a, em, omega, xl, xnode, c.xlcof, c.aycof)} |->
    Run([kep \in {KeplerLoop(lp.capu, lp.axn, lp.ayn)} |->
    Run([p \in {ShortPrelim(a, lp.axn, lp.ayn, kep.eo1)} |->
    IF plCheck(p.pl) THEN ErrorResult(tsince, algorithm, "Semi-latus rectum is negative")
        ELSE IF variant = 4
        THEN OkResult(ShortPeriod4(p, a, xn, lp.axn, lp.ayn, xnode, xinc, cosio, sinio,
        c.x3thm1, c.x1mth2, c.x7thm1), tsince, algorithm)
        ELSE OkResult(ShortPeriod8(p, a, xn, lp.axn, lp.ayn, xnode, xinc, cosio, sinio,
        c.x3thm1, c.x1mth2, c.x7thm1), tsince, algorithm)])])])])

(* sgp4: update for secular gravity and atmospheric drag, up to the decay check *)
sgp4Secular(state, t) ==
    Run([isimp \in {state.isimp},
         cc1 \in {state.cc1},
         cc4 \in {state.cc4},
         cc5 \in {state.cc5},
         d2 \in {state.d2},
         d3 \in {state.d3},
         d4 \in {state.d4},
         delmo \in {state.delmo},
         eta \in {state.eta},
         argpdot \in {state.argpdot},
         omgcof \in {state.omgcof},
         sinmao \in {state.sinmao},
         t2cof \in {state.t2cof},
         t3cof \in {state.t3cof},
         t4cof \in {state.t4cof},
         t5cof \in {state.t5cof},
         mdot \in {state.mdot},
         nodedot \in {state.nodedot},
         xmcof \in {state.xmcof},
         nodecf \in {state.nodecf},
         aodp \in {state.a},
         bstar \in {state.bstar},
         nodeo \in {state.nodeo},
         ecco \in {state.ecco},
         argpo \in {state.argpo},
         mo \in {state.mo},
         xnodp \in {state.no} |->
    Run([xmdf \in {Add(mo, Mul(mdot, t))},
         omgadf \in {Add(argpo, Mul(argpdot, t))},
         xnoddf \in {Add(nodeo, Mul(nodedot, t))},
         tsq \in {Mul(t, t)} |->
    Run([xnode \in {Add(xnoddf, Mul(nodecf, tsq))},
         tempa0 \in {Sub(Num(1), Mul(cc1, t))},
         tempe0 \in {Mul(Mul(bstar, cc4), t)},
         templ0 \in {Mul(t2cof, tsq)},
         delomg \in {Mul(omgcof, t)},
         delm \in {IF Gt(xmcof, Zero) THEN Mul(xmcof, Sub(PowInt(Add(Num(1), Mul(eta, Cos(xmdf))),
             3), delmo)) ELSE Zero} |->
    Run([temp \in {Add(delomg, delm)} |->
    Run([xmp \in {IF isimp = 0 THEN Add(xmdf, temp) ELSE xmdf},
         omega \in {IF isimp = 0 THEN Sub(omgadf, temp) ELSE omgadf},
         tcube \in {Mul(tsq, t)} |->
    Run([tfour \in {Mul(t, tcube)} |->
    Run([tempa \in {IF isimp = 0 THEN Sub(Sub(Sub(tempa0, Mul(d2, tsq)), Mul(d3, tcube)), Mul(d4,
             tfour)) ELSE tempa0},
         tempe \in {IF isimp = 0 THEN Add(tempe0, Mul(Mul(bstar, cc5), Sub(Sin(xmp),
             sinmao))) ELSE tempe0},
         templ \in {IF isimp = 0 THEN Add(Add(templ0, Mul(t3cof, tcube)), Mul(tfour, Add(t4cof,
             Mul(t, t5cof)))) ELSE templ0} |->
    Run([a \in {Mul(Mul(aodp, tempa), tempa)},
         e \in {Sub(ecco, tempe)},
         xl \in {Add(Add(Add(xmp, omega), xnode), Mul(xnodp, templ))} |->
    [a |-> a, e |-> e, xl |-> xl, omega |-> omega, xnode |-> xnode, tempa |-> tempa,
        tempe |-> tempe]])])])])])])])])

(* sgp8: update for secular gravity and atmospheric drag, up to the decay check *)
sgp8Secular(elements, state, t) ==
    Run([aodp \in {state.aodp},
         xnodp \in {state.xnodp},
         c1 \in {state.c1},
         c4 \in {state.c4},
         c5 \in {state.c5},
         d2 \in {state.d2},
         d3 \in {state.d3},
         d4 \in {state.d4},
         xmdot \in {state.xmdot},
         omgdot \in {state.omgdot},
         xnodot \in {state.xnodot},
         t2cof \in {state.t2cof},
         t3cof \in {state.t3cof},
         t4cof \in {state.t4cof},
         t5cof \in {state.t5cof},
         eta \in {state.eta},
         sinmo \in {state.sinmo},
         delmo \in {state.delmo},
         xmcof \in {state.xmcof},
         omgcof \in {state.omgcof},
         xnodcf \in {state.xnodcf},
         isimp \in {state.isimp},
         ecco \in {elements.ecco},
         argpo \in {elements.argpo},
         nodeo \in {elements.nodeo},
         mo \in {elements.mo},
         bstar \in {elements.bstar} |->
    Run([xmdf \in {Add(mo, Mul(xmdot, t))},
         omgadf \in {Add(argpo, Mul(omgdot, t))},
         xnoddf \in {Add(nodeo, Mul(xnodot, t))},
         tsq \in {Mul(t, t)} |->
    Run([xnode \in {Add(xnoddf, Mul(xnodcf, tsq))},
         tempa0 \in {Sub(Num(1), Mul(c1, t))},
         tempe0 \in {Mul(Mul(bstar, c4), t)},
         templ0 \in {Mul(t2cof, tsq)},
         delomg \in {Mul(omgcof, t)},
         delm \in {IF Gt(xmcof, Zero) THEN Mul(xmcof, Sub(PowInt(Add(Num(1), Mul(eta, Cos(xmdf))),
             3), delmo)) ELSE Zero} |->
    Run([temp \in {Add(delomg, delm)} |->
    Run([xmp \in {IF isimp = 0 THEN Add(xmdf, temp) ELSE xmdf},
         omega \in {IF isimp = 0 THEN Sub(omgadf, temp) ELSE omgadf},
         tcube \in {Mul(tsq, t)} |->
    Run([tfour \in {Mul(t, tcube)} |->
    Run([tempa \in {IF isimp = 0 THEN Sub(Sub(Sub(tempa0, Mul(d2, tsq)), Mul(d3, tcube)), Mul(d4,
             tfour)) ELSE tempa0},
         tempe \in {IF isimp = 0 THEN Add(tempe0, Mul(Mul(bstar, c5), Sub(Sin(xmp),
             sinmo))) ELSE tempe0},
         templ \in {IF isimp = 0 THEN Add(Add(templ0, Mul(t3cof, tcube)), Mul(tfour, Add(t4cof,
             Mul(t, t5cof)))) ELSE templ0} |->
    Run([a \in {Mul(Mul(aodp, tempa), tempa)},
         e \in {Sub(ecco, tempe)},
         xl \in {Add(Add(Add(xmp, omega), xnode), Mul(xnodp, templ))} |->
    [a |-> a, e |-> e, xl |-> xl, omega |-> omega, xnode |-> xnode, tempa |-> tempa,
        tempe |-> tempe]])])])])])])])])

(* const state = initState || modelinit(elements); an absent initState is <<>> *)
sgp4State(elements, initState) ==
    IF initState = <<>> THEN Call("sgp4init", <<elements>>) ELSE initState[1]

sgp8State(elements, initState) ==
    IF initState = <<>> THEN Call("sgp8init", <<elements>>) ELSE initState[1]

sdp4State(elements, initState) ==
    IF initState = <<>> THEN Call("sdp4init", <<elements>>) ELSE initState[1]

sdp8State(elements, initState) ==
    IF initState = <<>> THEN Call("sdp8init", <<elements>>) ELSE initState[1]

(* SGP4 Propagator *)
sgp4(elements, tsince, initState) ==
    Run([state \in {sgp4State(elements, initState)} |->
    Run([cosio \in {Cos(state.inclo)},
         sinio \in {Sin(state.inclo)},
         u \in {sgp4Secular(state, tsince)},
         c \in {[xlcof |-> state.xlcof, aycof |-> state.aycof, x3thm1 |-> state.con41,
             x1mth2 |-> state.x1mth2, x7thm1 |-> state.x7thm1]} |->
    IF decayCheck(u.a, u.e) THEN ErrorResult(tsince, "SGP4", "Satellite has decayed")
        ELSE Call("Continue", <<4, "SGP4", tsince, u.a, u.e, u.omega, u.xl, u.xnode, state.inclo,
        cosio, sinio, c>>)])])

(* SGP8 Propagator *)
sgp8(elements, tsince, initState) ==
    Run([state \in {sgp8State(elements, initState)} |->
    Run([u \in {sgp8Secular(elements, state, tsince)},
         c \in {[xlcof |-> state.xlcof, aycof |-> state.aycof, x3thm1 |-> state.x3thm1,
             x1mth2 |-> state.x1mth2, x7thm1 |-> state.x7thm1]},
         xinc \in {Acos(state.cosio)} |->
    IF decayCheck(u.a, u.e) THEN ErrorResult(tsince, "SGP8", "Satellite has decayed")
        ELSE Call("Continue", <<8, "SGP8", tsince, u.a, u.e, u.omega, u.xl, u.xnode, xinc,
        state.cosio, state.sinio, c>>)])])

(* sdp4, from the destructuring of the init state to the arguments of dssec: the
   scalars of the init state are copied into locals, ds stays a reference *)
sdp4Begin(elements, state, t) ==
    Run([aodp \in {state.aodp},
         xnodp \in {state.xnodp},
         xmdot \in {state.xmdot},
         omgdot \in {state.omgdot},
         xnodot \in {state.xnodot},
         xnodcf \in {state.xnodcf},
         t2cof \in {state.t2cof},
         cosio \in {state.cosio},
         ecco \in {elements.ecco},
         argpo \in {elements.argpo},
         nodeo \in {elements.nodeo},
         mo \in {elements.mo} |->
    Run([xmdf \in {Add(mo, Mul(xmdot, t))},
         omgadf \in {Add(argpo, Mul(omgdot, t))},
         xnoddf \in {Add(nodeo, Mul(xnodot, t))},
         tsq \in {Mul(t, t)} |->
    Run([xnode \in {Add(xnoddf, Mul(xnodcf, tsq))},
         tempa \in {Sub(Num(1), Mul(t2cof, t))},
         templ \in {Mul(t2cof, tsq)},
         inclo \in {IF Gt(state.aodp, Zero) THEN Acos(cosio) ELSE Zero} |->
    [aodp |-> aodp, xnodp |-> xnodp, ecco |-> ecco, inclo |-> inclo, xnode |-> xnode,
        omgadf |-> omgadf, xmdf |-> xmdf, tempa |-> tempa, templ |-> templ,
        xlcof |-> state.xlcof, aycof |-> state.aycof, x3thm1 |-> state.x3thm1,
        x1mth2 |-> state.x1mth2, x7thm1 |-> state.x7thm1]])])])

(* sdp4, after dsper: a and xl are the values the code computes after its decay check *)
sdp4Update(b, periodic) ==
    Run([em \in {periodic.em},
         xinc \in {periodic.xinc},
         omega \in {periodic.omgadf},
         xn \in {periodic.xnode},
         xmam \in {periodic.xmam},
         a \in {Mul(Mul(b.aodp, b.tempa), b.tempa)} |->
    Run([xl \in {Add(Add(Add(xmam, omega), xn), Mul(b.xnodp, b.templ))} |->
    [a |-> a, em |-> em, xl |-> xl, omega |-> omega, xn |-> xn, xinc |-> xinc,
        tempa |-> b.tempa]])])

(* sdp4: secular gravity, deep-space secular effects and periodics *)
sdp4Secular(elements, state, t) ==
    Run([b \in {Call("sdp4Begin", <<elements, state, t>>)} |->
    Run([secular \in {Call("dssec", <<state.ds, t, b.ecco, b.inclo, b.xnode, b.omgadf, b.xmdf>>)} |->
    Run([periodic \in {Call("dsper", <<state.ds, t, secular.e, secular.xinc, secular.omgadf, secular.xnode,
             secular.xmam>>)} |->
    sdp4Update(b, periodic)])])])

(* sdp8: secular gravity, deep-space secular effects and periodics; a and xl are
   the values the code computes after its decay check *)
sdp8Secular(elements, state, t) ==
    Run([aodp \in {state.aodp},
         xnodp \in {state.xnodp},
         xmdot \in {state.xmdot},
         omgdot \in {state.omgdot},
         xnodot \in {state.xnodot},
         cosio \in {state.cosio},
         edot \in {state.edot},
         ds \in {state.ds},
         ecco \in {elements.ecco},
         argpo \in {elements.argpo},
         nodeo \in {elements.nodeo},
         mo \in {elements.mo} |->
    Run([xmdf \in {Add(mo, Mul(xmdot, t))},
         omgadf \in {Add(argpo, Mul(omgdot, t))},
         xnoddf \in {Add(nodeo, Mul(xnodot, t))} |->
    Run([secular \in {Call("dssec", <<ds, t, ecco, Acos(cosio), xnoddf, omgadf, xmdf>>)} |->
    Run([em0 \in {Add(secular.e, Mul(edot, t))} |->
    Run([periodic \in {Call("dsper", <<ds, t, em0, secular.xinc, secular.omgadf, secular.xnode, secular.xmam>>)} |->
    Run([em \in {periodic.em},
         xinc \in {periodic.xinc},
         omega \in {periodic.omgadf},
         xn \in {periodic.xnode},
         xmam \in {periodic.xmam},
         a \in {aodp} |->
    Run([xl \in {Add(Add(xmam, omega), xn)} |->
    [a |-> a, em |-> em, xl |-> xl, omega |-> omega, xn |-> xn, xinc |-> xinc]])])])])])])])

(* sdp4, from the decay check to the returned result; c holds the locals copied from
   the init state *)
sdp4Finish(tsince, u, c) ==
    Run([cosInc \in {Cos(u.xinc)},
         sinInc \in {Sin(u.xinc)} |->
    IF deepDecayCheck(u.em) THEN ErrorResult(tsince, "SDP4", "Satellite has decayed")
        ELSE Then(<<cosInc, sinInc>>,
        Call("Continue", <<8, "SDP4", tsince, u.a, u.em, u.omega, u.xl, u.xn, u.xinc,
        cosInc, sinInc, c>>))])

(* sdp4 after the call of dsper, from the locals b and what dsper returned *)
sdp4Rest(tsince, b, periodic) == sdp4Finish(tsince, sdp4Update(b, periodic), b)

(* SDP4 Propagator *)
sdp4(elements, tsince, initState) ==
    Run([state \in {sdp4State(elements, initState)} |->
    Run([b \in {Call("sdp4Begin", <<elements, state, tsince>>)},
         u \in {sdp4Secular(elements, state, tsince)} |->
    Call("sdp4Finish", <<tsince, u, b>>)])])

(* SDP8 Propagator *)
sdp8(elements, tsince, initState) ==
    Run([state \in {sdp8State(elements, initState)} |->
    Run([u \in {sdp8Secular(elements, state, tsince)},
         c \in {[xlcof |-> state.xlcof, aycof |-> state.aycof, x3thm1 |-> state.x3thm1,
             x1mth2 |-> state.x1mth2, x7thm1 |-> state.x7thm1]} |->
    Run([cosInc \in {Cos(u.xinc)},
         sinInc \in {Sin(u.xinc)} |->
    IF deepDecayCheck(u.em) THEN ErrorResult(tsince, "SDP8", "Satellite has decayed")
        ELSE Then(<<cosInc, sinInc>>,
        Call("Continue", <<8, "SDP8", tsince, u.a, u.em, u.omega, u.xl, u.xn, u.xinc,
        cosInc, sinInc, c>>))])])])

-----------------------------------------------------------------------------
(* SGP.  sgp.ts is not among the sources; this follows the description of the
   model: Kozai secular rates on the recovered elements, no drag, the eccentricity
   failure condition, then the shared Kepler and short period steps *)

sgp(elements, tsince) ==
    Run([r \in {Call("Recover", <<elements.no, elements.ecco, elements.inclo>>)} |->
    Run([k \in {Call("SecularRates", <<r>>)},
         sinio \in {Sin(elements.inclo)} |->
    Run([xmdf \in {Add(elements.mo, Mul(k.xmdot, tsince))},
         omgadf \in {Add(elements.argpo, Mul(k.omgdot, tsince))},
         xnoddf \in {Add(elements.nodeo, Mul(k.xnodot, tsince))} |->
    Run([xl \in {Add(Add(xmdf, omgadf), xnoddf)},
         c \in {[xlcof |-> Div(Mul(Mul(Mul(Dec(125, -3), A3OVK2), sinio), Add(Num(3), Mul(Num(5),
             r.cosio))), Add(Num(1), r.cosio)),
             aycof |-> Mul(Mul(Dec(25, -2), A3OVK2), sinio), x3thm1 |-> r.x3thm1,
             x1mth2 |-> Sub(Num(1), r.theta2), x7thm1 |-> Sub(Mul(Num(7), r.theta2), Num(1))]} |->
    IF Ge(elements.ecco, Num(1)) \/ Lt(elements.ecco, Dec(-1, -3))
        THEN ErrorResult(tsince, "SGP", "Satellite has decayed")
        ELSE Call("Continue", <<8, "SGP", tsince, r.aodp, elements.ecco, omgadf, xl, xnoddf,
        elements.inclo, r.cosio, sinio, c>>)])])])])

-----------------------------------------------------------------------------
(* index.ts: the dispatcher *)

(* getSatelliteType with the threshold itself counted as near-Earth *)
getSatelliteTypeInclusive(no) ==
    LET period == Div(TWOPI, no)
    IN  IF Le(period, DEEP_SPACE_THRESHOLD) THEN "near-earth" ELSE "deep-space"

(* Determine if a satellite is near-Earth or deep-space based on its period *)
getSatelliteType(no) ==
    LET period == Div(TWOPI, no)
    IN  IF Lt(period, DEEP_SPACE_THRESHOLD) THEN "near-earth" ELSE "deep-space"

(* Automatically select the appropriate propagator based on orbital period *)
propagate(elements, tsince) ==
    LET satType == getSatelliteType(elements.no)
    IN  IF satType = "near-earth" THEN Call("sgp4", <<elements, tsince, <<>>>>)
        ELSE Call("sdp4", <<elements, tsince, <<>>>>)

(* throw new Error(`Unknown propagation model: ${model}`) *)
Thrown(model) ==
    [thrown |-> "Unknown propagation model", model |-> model]

(* Propagate a satellite using a specific model *)
propagateWithModel(elements, tsince, model) ==
    CASE model = "SGP" -> Call("sgp", <<elements, tsince>>)
      [] model = "SGP4" -> Call("sgp4", <<elements, tsince, <<>>>>)
      [] model = "SDP4" -> Call("sdp4", <<elements, tsince, <<>>>>)
      [] model = "SGP8" -> Call("sgp8", <<elements, tsince, <<>>>>)
      [] model = "SDP8" -> Call("sdp8", <<elements, tsince, <<>>>>)
      [] OTHER -> Thrown(model)

-----------------------------------------------------------------------------
(* What a call leaves in the objects it was handed.  No statement of the evaluate
   functions, of dssec or of dsper assigns to a field of the element record, of the
   init state or of ds, so the object after the call is the object before it *)

(* Evaluations that write: the mean anomaly advanced in the element record or in
   the init state, the integrator's time or the solar angle stored in ds *)
elementsAfterAdvancing(elements, t) ==
    [elements EXCEPT !.mo = Add(elements.mo, Mul(elements.no, t))]

dssecAfterIntegrating(ds, t) == [ds EXCEPT !.atime = t]

dsperAfterStoring(ds, t) == [ds EXCEPT !.zmos = Add(ds.zmos, Mul(ZNS, t))]

sgp4AfterAdvancing(state, t) ==
    [state EXCEPT !.mo = Add(state.mo, Mul(state.mdot, t))]

elementsAfter(elements, t) == elements

dssecAfter(ds, t) == ds

dsperAfter(ds, t) == ds

sgp4After(state, t) == state

sgp8After(state, t) == state

sdp4After(state, t) ==
    [state EXCEPT !.ds = dsperAfter(dssecAfter(state.ds, t), t)]

sdp8After(state, t) ==
    [state EXCEPT !.ds = dsperAfter(dssecAfter(state.ds, t), t)]

-----------------------------------------------------------------------------
(* The callers: element sets, times and the calls they make *)

MaxStep == 2

(* minutes since epoch: half a day before it, the epoch, and half days after it *)
Times == {Norm(720 * k, 0) : k \in -1..MaxStep}

Models == {"SGP4", "SGP8", "SDP4", "SDP8"}

DeepModels == {"SDP4", "SDP8"}

(* the names of the model parameter's type, and one string outside it *)
ModelNames == {"SGP", "SGP4", "SDP4", "SGP8", "SDP8"}

OtherName == "sgp4"

(* An element record as the decoder leaves it: angles in radians, the mean motion
   in radians per minute, epoch 1980 day 275 *)
Elements(no, ecco, inclo, bstar) ==
    [bstar |-> bstar, inclo |-> inclo, nodeo |-> Zero, ecco |-> ecco, argpo |-> Zero,
     mo |-> Zero, no |-> no, jdsatepoch |-> Norm(24445145, -1),
     epochDay |-> Norm(275, 0), nddot |-> Zero, ndot |-> Zero]

(* The element sets in use: the report's near-Earth test case 88888; two low orbits
   of period 88 minutes under heavy drag; two highly eccentric orbits, of periods
   88 and 300 minutes; a geosynchronous orbit, of period 1436 minutes; and two
   orbits at the 225 minute threshold, one of period 225 and one of period 224.95 *)
Catalogue ==
    << [bstar |-> Norm(66816, -9), inclo |-> Norm(12713589, -7), nodeo |-> Norm(20240391, -7),
        ecco |-> Norm(86731, -7), argpo |-> Norm(91976756, -8), mo |-> Norm(19298350, -7),
        no |-> Norm(70067265, -9), jdsatepoch |-> Norm(24445145, -1),
        epochDay |-> Norm(27598708, -5), nddot |-> Zero, ndot |-> Zero],
       Elements(Norm(71399834, -9), Norm(5, -4), Norm(11, -1), Norm(5, -2)),
       Elements(Norm(71399834, -9), Norm(1, -2), Zero, Norm(5, -2)),
       Elements(Norm(71399834, -9), Norm(99, -2), Norm(11, -1), Norm(1, -4)),
       Elements(Norm(20943951, -9), Norm(9999, -4), Norm(11, -1), Norm(1, -4)),
       Elements(Norm(43754773, -10), Norm(2, -4), Norm(5, -2), Norm(1, -3)),
       Elements(Norm(27925268, -9), Norm(1, -3), Norm(9, -1), Norm(1, -4)),
       Elements(Norm(27931475, -9), Norm(1, -3), Zero, Norm(1, -4)) >>

initOf(model, elements) ==
    CASE model = "SGP4" -> Call("sgp4init", <<elements>>)
      [] model = "SGP8" -> Call("sgp8init", <<elements>>)
      [] model = "SDP4" -> Call("sdp4init", <<elements>>)
      [] model = "SDP8" -> Call("sdp8init", <<elements>>)

evaluate(model, elements, tsince, initState) ==
    CASE model = "SGP4" -> Call("sgp4", <<elements, tsince, initState>>)
      [] model = "SGP8" -> Call("sgp8", <<elements, tsince, initState>>)
      [] model = "SDP4" -> Call("sdp4", <<elements, tsince, initState>>)
      [] model = "SDP8" -> Call("sdp8", <<elements, tsince, initState>>)

stateAfter(model, state, t) ==
    CASE model = "SGP4" -> sgp4After(state, t)
      [] model = "SGP8" -> sgp8After(state, t)
      [] model = "SDP4" -> sdp4After(state, t)
      [] model = "SDP8" -> sdp8After(state, t)

Call(f, x) ==
    CASE f = "Add" -> Sum(x[1], x[2])
      [] f = "Mul" -> Product(x[1], x[2])
      [] f = "Div" -> Quotient(x[1], x[2])
      [] f = "Dec" -> Norm(x[1], x[2])
      [] f = "Fmod" -> Remainder(x[1], x[2])
      [] f = "Sqrt" -> SquareRoot(x[1])
      [] f = "Cbrt" -> CubeRoot(x[1])
      [] f = "Sin" -> Sine(x[1])
      [] f = "Cos" -> Cosine(x[1])
      [] f = "Atan2" -> Arctangent2(x[1], x[2])
      [] f = "Acos" -> Arccosine(x[1])
      [] f = "sgp4init" -> sgp4init(x[1])
      [] f = "sgp8init" -> sgp8init(x[1])
      [] f = "sdp4init" -> sdp4init(x[1])
      [] f = "sdp8init" -> sdp8init(x[1])
      [] f = "sgp" -> sgp(x[1], x[2])
      [] f = "sgp4" -> sgp4(x[1], x[2], x[3])
      [] f = "sgp8" -> sgp8(x[1], x[2], x[3])
      [] f = "sdp4" -> sdp4(x[1], x[2], x[3])
      [] f = "sdp8" -> sdp8(x[1], x[2], x[3])
      [] f = "dssec" -> dssec(x[1], x[2], x[3], x[4], x[5], x[6], x[7])
      [] f = "dsper" -> dsper(x[1], x[2], x[3], x[4], x[5], x[6], x[7])
      [] f = "sdp4Begin" -> sdp4Begin(x[1], x[2], x[3])
      [] f = "sdp4Finish" -> sdp4Finish(x[1], x[2], x[3])
      [] f = "sdp4Rest" -> sdp4Rest(x[1], x[2], x[3])
      [] f = "Recover" -> Recover(x[1], x[2], x[3])
      [] f = "SecularRates" -> SecularRates(x[1])
      [] f = "DragTerms" -> DragTerms(x[1], x[2])
      [] f = "dsinit" -> dsinit(x[1], x[2], x[3], x[4], x[5], x[6], x[7])
      [] f = "Continue" -> Continue(x[1], x[2], x[3], x[4], x[5], x[6], x[7], x[8], x[9],
                                    x[10], x[11], x[12])
      [] f = "getSatelliteType" -> getSatelliteType(x[1])
      [] f = "propagate" -> propagate(x[1], x[2])
      [] f = "propagateWithModel" -> propagateWithModel(x[1], x[2], x[3])
      [] f = "initOf" -> initOf(x[1], x[2])
      [] f = "evaluate" -> evaluate(x[1], x[2], x[3], x[4])
      [] f = "KeplerStep" -> KeplerStep(x[1], x[2], x[3], x[4])
      [] f = "NewtonStep" -> NewtonStep(x[1], x[2], x[3], x[4])

VARIABLES
    sat,         \* which element set of the Catalogue the caller works on
    elements,    \* the element record
    held,        \* the init state the caller keeps: <<>> or <<[model, state]>>
    call,        \* the latest call
    pc,          \* "idle", "called", "returned" or "thrown"
    result,      \* what the latest call returned or threw: <<>> or <<value>>
    afterDecay,  \* the call before the latest one returned an error at another time
    first,       \* what each model returns at each time when called first, on its own
    ctx,         \* the evaluations that run in parallel on the held init state
    unit,        \* one function of the propagators applied on its own: <<>> or a record
    client,      \* a TleClient, its cache, the clock and the requests under way
    scan,        \* a call of findPasses: <<>> or its locals
    iter         \* how many times the loop of the unit under study has gone round

vars == <<sat, elements, held, call, pc, result, afterDecay, first, ctx, unit, client, scan, iter>>

NoCall == [op |-> "none", model |-> "none", tsince |-> Zero, reuse |-> FALSE]

Requests ==
    [op : {"init"}, model : Models, tsince : {Zero}, reuse : {FALSE}]
    \cup [op : {"evaluate"}, model : Models, tsince : Times, reuse : BOOLEAN]
    \cup [op : {"propagate"}, model : {"auto"}, tsince : Times, reuse : {FALSE}]
    \cup [op : {"propagateWithModel"}, model : ModelNames \cup {OtherName}, tsince : Times,
          reuse : {FALSE}]
    \cup [op : {"getSatelliteType"}, model : {"none"}, tsince : {Zero}, reuse : {FALSE}]
    \cup [op : {"dssec", "dsper"}, model : DeepModels, tsince : Times, reuse : {TRUE}]

ResultOps == {"evaluate", "propagate", "propagateWithModel"}

(* A caller passes an init state only to the model that built it, and the deep-space
   routines the ds of a deep-space init state *)
Permitted(r) ==
    IF r.reuse THEN held # <<>> /\ held[1].model = r.model ELSE held = <<>>

Idle == [pc |-> "idle", tsince |-> Zero, b |-> <<>>, secular |-> <<>>, periodic |-> <<>>,
         out |-> <<>>, mixed |-> FALSE]

Contexts == {"one", "two"}

FirstResults(e) ==
    [m \in Models |-> [t \in Times |-> Call("evaluate", <<m, e, t, <<>>>>)]]

Init ==
    /\ sat \in 1..Len(Catalogue)
    /\ elements = Catalogue[sat]
    /\ held = <<>>
    /\ call = NoCall
    /\ pc = "idle"
    /\ result = <<>>
    /\ afterDecay = FALSE
    /\ first = FirstResults(Catalogue[sat])
    /\ ctx = [c \in Contexts |-> Idle]
    /\ unit = <<>>
    /\ client = <<>>
    /\ iter = 0
    /\ scan = <<>>

(* the caller makes a call *)
Request(r) ==
    /\ pc # "called"
    /\ Permitted(r)
    /\ call' = r
    /\ pc' = "called"
    /\ result' = <<>>
    /\ afterDecay' = /\ pc = "returned"
                     /\ call.op \in ResultOps
                     /\ r.op \in ResultOps
                     /\ result[1].error
                     /\ result[1].tsince # r.tsince
    /\ UNCHANGED <<unit, client, scan, iter, sat, elements, held, first, ctx>>

(* the caller drops the init state it kept *)
Release ==
    /\ pc # "called"
    /\ held # <<>>
    /\ held' = <<>>
    /\ call' = NoCall
    /\ pc' = "idle"
    /\ result' = <<>>
    /\ afterDecay' = FALSE
    /\ UNCHANGED <<unit, client, scan, iter, sat, elements, first, ctx>>

(* sgp4init, sgp8init, sdp4init, sdp8init *)
Initialize(m) ==
    /\ pc = "called"
    /\ call.op = "init"
    /\ call.model = m
    /\ held' = <<[model |-> m, state |-> Call("initOf", <<m, elements>>)]>>
    /\ pc' = "returned"
    /\ UNCHANGED <<unit, client, scan, iter, sat, elements, call, result, afterDecay, first, ctx>>

(* sgp4, sgp8, sdp4, sdp8, with or without the init state the caller keeps *)
Evaluate(m) ==
    /\ pc = "called"
    /\ call.op = "evaluate"
    /\ call.model = m
    /\ result' = <<Call("evaluate", <<m, elements, call.tsince,
                                       IF call.reuse THEN <<held[1].state>> ELSE <<>>>>)>>
    /\ held' = IF call.reuse
               THEN <<[held[1] EXCEPT !.state = stateAfter(m, held[1].state, call.tsince)]>>
               ELSE held
    /\ elements' = elementsAfter(elements, call.tsince)
    /\ pc' = "returned"
    /\ UNCHANGED <<unit, client, scan, iter, sat, call, afterDecay, first, ctx>>

Propagate ==
    /\ pc = "called"
    /\ call.op = "propagate"
    /\ result' = <<Call("propagate", <<elements, call.tsince>>)>>
    /\ elements' = elementsAfter(elements, call.tsince)
    /\ pc' = "returned"
    /\ UNCHANGED <<unit, client, scan, iter, sat, held, call, afterDecay, first, ctx>>

PropagateWithModel ==
    /\ pc = "called"
    /\ call.op = "propagateWithModel"
    /\ result' = <<Call("propagateWithModel", <<elements, call.tsince, call.model>>)>>
    /\ pc' = IF "thrown" \in DOMAIN result'[1] THEN "thrown" ELSE "returned"
    /\ elements' = elementsAfter(elements, call.tsince)
    /\ UNCHANGED <<unit, client, scan, iter, sat, held, call, afterDecay, first, ctx>>

GetSatelliteType ==
    /\ pc = "called"
    /\ call.op = "getSatelliteType"
    /\ result' = <<Call("getSatelliteType", <<elements.no>>)>>
    /\ pc' = "returned"
    /\ UNCHANGED <<unit, client, scan, iter, sat, elements, held, call, afterDecay, first, ctx>>

(* dssec called on the ds of the held init state, with the elements at epoch *)
Dssec ==
    /\ pc = "called"
    /\ call.op = "dssec"
    /\ result' = <<Call("dssec", <<held[1].state.ds, call.tsince, elements.ecco,
                                    elements.inclo, elements.nodeo, elements.argpo,
                                    elements.mo>>)>>
    /\ held' = <<[held[1] EXCEPT !.state.ds = dssecAfter(held[1].state.ds, call.tsince)]>>
    /\ pc' = "returned"
    /\ UNCHANGED <<unit, client, scan, iter, sat, elements, call, afterDecay, first, ctx>>

(* dsper called on the ds of the held init state, with the elements at epoch *)
Dsper ==
    /\ pc = "called"
    /\ call.op = "dsper"
    /\ result' = <<Call("dsper", <<held[1].state.ds, call.tsince, elements.ecco,
                                    elements.inclo, elements.argpo, elements.nodeo,
                                    elements.mo>>)>>
    /\ held' = <<[held[1] EXCEPT !.state.ds = dsperAfter(held[1].state.ds, call.tsince)]>>
    /\ pc' = "returned"
    /\ UNCHANGED <<unit, client, scan, iter, sat, elements, call, afterDecay, first, ctx>>

Next ==
    \/ \E r \in Requests : Request(r)
    \/ Release
    \/ \E m \in Models : Initialize(m)
    \/ \E m \in Models : Evaluate(m)
    \/ Propagate
    \/ PropagateWithModel
    \/ GetSatelliteType
    \/ Dssec
    \/ Dsper

Spec == Init /\ [][Next]_vars

-----------------------------------------------------------------------------
(* Evaluations of sdp4 that run in parallel on one element record and one shared
   init state.  Each takes the steps of sdp4 in order; between two steps of one the
   other may take any number of its own *)

Running == {"dssec", "dsper", "finish"}

(* context c takes a step: the others that are under way have been interleaved *)
Interleave(c, f) ==
    [d \in Contexts |-> IF d # c /\ f[d].pc \in Running THEN [f[d] EXCEPT !.mixed = TRUE]
                        ELSE f[d]]

InitParallel ==
    /\ sat \in {i \in 1..Len(Catalogue) :
                   Call("getSatelliteType", <<Catalogue[i].no>>) = "deep-space"}
    /\ elements = Catalogue[sat]
    /\ held = <<[model |-> "SDP4", state |-> Call("initOf", <<"SDP4", Catalogue[sat]>>)]>>
    /\ call = NoCall
    /\ pc = "idle"
    /\ result = <<>>
    /\ afterDecay = FALSE
    /\ first = FirstResults(Catalogue[sat])
    /\ ctx = [c \in Contexts |-> Idle]
    /\ unit = <<>>
    /\ client = <<>>
    /\ iter = 0
    /\ scan = <<>>

(* sdp4 lines 125-142: the init state is read and the secular update made *)
Begin(c, t) ==
    /\ ctx[c].pc = "idle"
    /\ ctx' = Interleave(c, [ctx EXCEPT ![c] =
                  [Idle EXCEPT !.pc = "dssec", !.tsince = t,
                               !.b = <<Call("sdp4Begin", <<elements, held[1].state, t>>)>>]])
    /\ UNCHANGED <<unit, client, scan, iter, sat, elements, held, call, pc, result, afterDecay, first>>

(* sdp4 line 145: dssec on the shared ds *)
StepDssec(c) ==
    /\ ctx[c].pc = "dssec"
    /\ LET b == ctx[c].b[1]
           t == ctx[c].tsince
       IN  /\ ctx' = Interleave(c, [ctx EXCEPT ![c].pc = "dsper",
                         ![c].secular = <<Call("dssec", <<held[1].state.ds, t, b.ecco, b.inclo,
                                                           b.xnode, b.omgadf, b.xmdf>>)>>])
           /\ held' = <<[held[1] EXCEPT !.state.ds = dssecAfter(held[1].state.ds, t)]>>
    /\ UNCHANGED <<unit, client, scan, iter, sat, elements, call, pc, result, afterDecay, first>>

(* sdp4 line 154: dsper on the shared ds *)
StepDsper(c) ==
    /\ ctx[c].pc = "dsper"
    /\ LET s == ctx[c].secular[1]
           t == ctx[c].tsince
       IN  /\ ctx' = Interleave(c, [ctx EXCEPT ![c].pc = "finish",
                         ![c].periodic = <<Call("dsper", <<held[1].state.ds, t, s.e, s.xinc,
                                                            s.omgadf, s.xnode, s.xmam>>)>>])
           /\ held' = <<[held[1] EXCEPT !.state.ds = dsperAfter(held[1].state.ds, t)]>>
    /\ UNCHANGED <<unit, client, scan, iter, sat, elements, call, pc, result, afterDecay, first>>

(* sdp4 lines 155-278: from the decay check to the returned result, on locals only *)
Finish(c) ==
    /\ ctx[c].pc = "finish"
    /\ LET b == ctx[c].b[1]
       IN  ctx' = Interleave(c, [ctx EXCEPT ![c].pc = "done",
                      ![c].out = <<Call("sdp4Rest", <<ctx[c].tsince, b, ctx[c].periodic[1]>>)>>])
    /\ UNCHANGED <<unit, client, scan, iter, sat, elements, held, call, pc, result, afterDecay, first>>

(* the caller takes the result; the context is free for another evaluation *)
Collect(c) ==
    /\ ctx[c].pc = "done"
    /\ ctx' = [ctx EXCEPT ![c] = Idle]
    /\ UNCHANGED <<unit, client, scan, iter, sat, elements, held, call, pc, result, afterDecay, first>>

NextParallel ==
    \/ \E c \in Contexts, t \in Times : Begin(c, t)
    \/ \E c \in Contexts : StepDssec(c)
    \/ \E c \in Contexts : StepDsper(c)
    \/ \E c \in Contexts : Finish(c)
    \/ \E c \in Contexts : Collect(c)

SpecParallel == InitParallel /\ [][NextParallel]_vars


-----------------------------------------------------------------------------
(* Functions of the propagators applied on their own.  The propagators' callers,
   the client and findPasses take no part *)

NoCallers ==
    /\ sat = 1
    /\ elements = Catalogue[1]
    /\ held = <<>>
    /\ call = NoCall
    /\ pc = "idle"
    /\ result = <<>>
    /\ afterDecay = FALSE
    /\ first = <<>>
    /\ ctx = [c \in Contexts |-> Idle]

callerVars == <<sat, elements, held, call, pc, result, afterDecay, first, ctx>>

-----------------------------------------------------------------------------
(* The Kepler loop of sgp4, sgp8, sdp4 and sdp8, one iteration at a step *)

(* seeds and coefficients: inside the unit disk, on it and outside it *)
CapuValues == {Zero, Norm(1, 0), Norm(3, 0), Norm(6, 0), Norm(-2, 0)}

AxnValues == {Zero, Norm(3, -1), Norm(9, -1), Norm(1, 0), Norm(-7, -1)}

AynValues == {Zero, Norm(5, -1), Norm(-9, -1), Norm(1, 0), Norm(-1, -3)}

InitKepler ==
    /\ NoCallers
    /\ unit \in {[op |-> "kepler", capu |-> capu, axn |-> axn, ayn |-> ayn,
                  k |-> [eo1 |-> capu, iters |-> 0, done |-> FALSE], tem5 |-> <<>>,
                  pc |-> "loop"] :
                    capu \in CapuValues, axn \in AxnValues, ayn \in AynValues}
    /\ client = <<>>
    /\ iter = 0
    /\ scan = <<>>

(* for (let i = 0; i < 10; i++) { ...; eo1 += tem5; if (|tem5| < 1e-12) break; } *)
KeplerIterate ==
    /\ unit.pc = "loop"
    /\ unit.k.iters < 10
    /\ ~unit.k.done
    /\ unit' = [unit EXCEPT
                  !.k = Call("KeplerStep", <<unit.capu, unit.axn, unit.ayn, unit.k>>),
                  !.tem5 = <<Call("NewtonStep", <<unit.capu, unit.axn, unit.ayn, unit.k.eo1>>)>>]
    /\ iter' = iter + 1
    /\ UNCHANGED <<callerVars, client, scan>>

(* const epw = eo1 *)
KeplerLeave ==
    /\ unit.pc = "loop"
    /\ unit.k.iters >= 10 \/ unit.k.done
    /\ unit' = [unit EXCEPT !.pc = "left"]
    /\ UNCHANGED <<callerVars, client, scan, iter>>

NextKepler == KeplerIterate \/ KeplerLeave

(* The loop is straight-line synchronous code that nothing preempts: while its
   condition holds and no break was taken it goes round once more, and once it
   cannot go round the statement after it runs.  The first condition is stated on
   the loop counter: the step that advances it is KeplerIterate, the only action
   that changes iter. *)
KeplerGoesRound ==
    /\ unit.pc = "loop"
    /\ unit.k.iters < 10
    /\ ~unit.k.done
    /\ iter' = iter + 1

SpecKepler ==
    InitKepler /\ [][NextKepler]_vars /\ WF_iter(KeplerGoesRound) /\ WF_vars(KeplerLeave)

-----------------------------------------------------------------------------
(* sgp4 called at one time after another on element sets of low perigee and high
   drag *)

(* minutes between two calls, and the number of calls *)
ForwardStep == Norm(360, 0)

MaxForward == 40

(* periods of 88 to 90 minutes, perigees below 300 km, bstar of 0.01 and more *)
DragCatalogue ==
    {Elements(no, ecco, inclo, bstar) :
        no \in {Norm(71399834, -9), Norm(70597589, -9), Norm(69813171, -9)},
        ecco \in {Norm(5, -4), Norm(2, -3)},
        inclo \in {Zero, Norm(11, -1)},
        bstar \in {Norm(1, -2), Norm(2, -2), Norm(5, -2)}}

InitForward ==
    /\ NoCallers
    /\ unit \in {[op |-> "forward", elements |-> e, tsince |-> Zero, calls |-> 0,
                  result |-> <<>>, decayed |-> FALSE] : e \in DragCatalogue}
    /\ client = <<>>
    /\ iter = 0
    /\ scan = <<>>

(* the next call, ForwardStep minutes later *)
Advance ==
    /\ unit.calls < MaxForward
    /\ LET t == Add(unit.tsince, ForwardStep)
           r == Call("sgp4", <<unit.elements, t, <<>>>>)
       IN  unit' = [unit EXCEPT !.tsince = t, !.calls = unit.calls + 1, !.result = <<r>>,
                                !.decayed = unit.decayed \/ r.error]
    /\ iter' = iter + 1
    /\ UNCHANGED <<callerVars, client, scan>>

NextForward == Advance

(* The caller keeps propagating forward: while calls remain, the next one is made.
   Advance is the only action that changes iter. *)
NextCallMade ==
    /\ unit.calls < MaxForward
    /\ iter' = iter + 1

SpecForward == InitForward /\ [][NextForward]_vars /\ WF_iter(NextCallMade)

-----------------------------------------------------------------------------
(* The init functions on their own: sgp4init, dsinit, and the deep-space routines
   on a ds whose resonance fields hold other values *)

(* mean motions, in radians per minute, of periods from 88 minutes to 2 days; those
   of 800 and 1200 minutes are exact in this arithmetic *)
MeanMotions ==
    {Norm(71399834, -9), Norm(69813171, -9), Norm(66138793, -9), Norm(27925268, -9),
     Norm(10489457, -9), Norm(10471976, -9), Norm(10454551, -9), Norm(87509545, -10),
     Norm(78539817, -10), Norm(78441765, -10), Norm(52403548, -10), Norm(52359878, -10),
     Norm(43754773, -10), Norm(21816616, -10)}

InitCatalogue ==
    {Elements(no, ecco, inclo, Norm(1, -4)) :
        no \in MeanMotions, ecco \in {Norm(1, -3), Norm(2, -2)}, inclo \in {Zero, Norm(11, -1)}}

(* values the resonance fields of a ds may hold instead of those dsinit left *)
OtherFlags ==
    {[iresfl |-> i, isynfl |-> s, xfact |-> x, xli |-> x, xni |-> x, atime |-> x] :
        i \in BOOLEAN, s \in BOOLEAN, x \in {Zero, Norm(720, 0)}}

WithFlags(ds, f) ==
    [ds EXCEPT !.iresfl = f.iresfl, !.isynfl = f.isynfl, !.xfact = f.xfact, !.xli = f.xli,
               !.xni = f.xni, !.atime = f.atime]

InitInits ==
    /\ NoCallers
    /\ unit = <<>>
    /\ client = <<>>
    /\ iter = 0
    /\ scan = <<>>

Sgp4init(e) ==
    /\ unit = <<>>
    /\ unit' = [op |-> "sgp4init", elements |-> e, state |-> Call("sgp4init", <<e>>)]
    /\ UNCHANGED <<callerVars, client, scan, iter>>

Dsinit(e) ==
    /\ unit = <<>>
    /\ unit' = [op |-> "dsinit", elements |-> e,
                ds |-> Call("dsinit", <<e.jdsatepoch, e.no, e.ecco, e.inclo, e.nodeo, e.argpo,
                                        e.mo>>)]
    /\ UNCHANGED <<callerVars, client, scan, iter>>

(* sdp4 or sdp8 at time t with the init state as built, and with the resonance
   fields of its ds replaced *)
DeepTwice(m, e, t, f) ==
    /\ unit = <<>>
    /\ LET state == Call("initOf", <<m, e>>)
           other == [state EXCEPT !.ds = WithFlags(state.ds, f)]
       IN  unit' = [op |-> "flags", model |-> m, elements |-> e, tsince |-> t, flags |-> f,
                    ds |-> state.ds,
                    asBuilt |-> Call("evaluate", <<m, e, t, <<state>>>>),
                    replaced |-> Call("evaluate", <<m, e, t, <<other>>>>),
                    secular |-> <<Call("dssec", <<state.ds, t, e.ecco, e.inclo, e.nodeo,
                                                  e.argpo, e.mo>>),
                                  Call("dssec", <<other.ds, t, e.ecco, e.inclo, e.nodeo,
                                                  e.argpo, e.mo>>)>>,
                    periodic |-> <<Call("dsper", <<state.ds, t, e.ecco, e.inclo, e.argpo,
                                                   e.nodeo, e.mo>>),
                                   Call("dsper", <<other.ds, t, e.ecco, e.inclo, e.argpo,
                                                   e.nodeo, e.mo>>)>>]
    /\ UNCHANGED <<callerVars, client, scan, iter>>

(* the caller is done with what the function returned *)
Discard ==
    /\ unit # <<>>
    /\ unit' = <<>>
    /\ UNCHANGED <<callerVars, client, scan, iter>>

DeepCatalogue == {Catalogue[6], Catalogue[7], Catalogue[5]}

(* pairs of different element records: two near-Earth ones and two deep-space ones *)
RecordPairs(m) ==
    IF m \in DeepModels
    THEN {<<Catalogue[6], Catalogue[7]>>, <<Catalogue[7], Catalogue[6]>>}
    ELSE {<<Catalogue[1], Catalogue[2]>>, <<Catalogue[2], Catalogue[1]>>}

(* a model called with the init state of the record own and the record passed as
   elements, beside the call on own alone *)
EvaluateWith(m, own, passed, t) ==
    /\ unit = <<>>
    /\ unit' = [op |-> "initState", model |-> m, own |-> own, elements |-> passed, tsince |-> t,
                withState |-> Call("evaluate", <<m, passed, t, <<Call("initOf", <<m, own>>)>>>>),
                alone |-> Call("evaluate", <<m, own, t, <<>>>>)]
    /\ UNCHANGED <<callerVars, client, scan, iter>>

NextInits ==
    \/ \E e \in InitCatalogue : Sgp4init(e)
    \/ \E e \in InitCatalogue : Dsinit(e)
    \/ \E m \in DeepModels, e \in DeepCatalogue, t \in Times, f \in OtherFlags :
           DeepTwice(m, e, t, f)
    \/ \E m \in Models, t \in {Zero, Norm(720, 0)} : \E p \in RecordPairs(m) :
           EvaluateWith(m, p[1], p[2], t)
    \/ Discard

SpecInits == InitInits /\ [][NextInits]_vars

-----------------------------------------------------------------------------
(* The TLE API client of src/index.ts: class Cache, TleApiError and TleClient.
   Time is counted in ticks of six hours. *)

(* const TWELVE_HOURS_MS = 12 * 60 * 60 * 1000 *)
TWELVE_HOURS_MS == 2

(* private store = new Map<string, CacheEntry<unknown>>() *)
EmptyStore == [k \in {} |-> <<>>]

(* this.store.delete(key) *)
StoreDelete(store, key) == [k \in DOMAIN store \ {key} |-> store[k]]

(* Cache.get with the entry taken as expired from its expiry time on *)
CacheGetEager(cache, now, key) ==
    IF key \notin DOMAIN cache.store
    THEN [cache |-> cache, data |-> <<>>]
    ELSE IF now >= cache.store[key].expiresAt
         THEN [cache |-> [cache EXCEPT !.store = StoreDelete(cache.store, key)], data |-> <<>>]
         ELSE [cache |-> cache, data |-> <<cache.store[key].data>>]

(* Cache.get: the cache after the call and the data returned, <<>> for undefined *)
CacheGet(cache, now, key) ==
    IF key \notin DOMAIN cache.store
    THEN [cache |-> cache, data |-> <<>>]
    ELSE IF now > cache.store[key].expiresAt
         THEN [cache |-> [cache EXCEPT !.store = StoreDelete(cache.store, key)], data |-> <<>>]
         ELSE [cache |-> cache, data |-> <<cache.store[key].data>>]

(* Cache.set *)
CacheSet(cache, now, key, data) ==
    [cache EXCEPT !.store =
        [k \in DOMAIN cache.store \cup {key} |->
            IF k = key THEN [data |-> data, expiresAt |-> now + cache.ttlMs]
            ELSE cache.store[k]]]

(* Cache.clear *)
CacheClear(cache) == [cache EXCEPT !.store = EmptyStore]

(* Cache.prune: remove all expired entries *)
CachePrune(cache, now) ==
    [cache EXCEPT !.store =
        [k \in {j \in DOMAIN cache.store : ~(now > cache.store[j].expiresAt)} |-> cache.store[k]]]

(* new TleApiError(message, status, response) *)
TleApiError(message, status, response) ==
    [name |-> "TleApiError", message |-> message, status |-> status, response |-> response]

(* new TleClient(options): cache is null (<<>>) when disableCache is set *)
TleClient(options) ==
    IF options.disableCache THEN <<>>
    ELSE <<[store |-> EmptyStore,
            ttlMs |-> IF options.cacheTtl = <<>> THEN TWELVE_HOURS_MS ELSE options.cacheTtl[1]]>>

(* the calls of the public methods: collection(params), record(id),
   propagate(id) and propagate(id, {date}) *)
ClientCalls ==
    {[op |-> "collection", id |-> "", arg |-> <<"?search=ISS">>],
     [op |-> "record", id |-> "25544", arg |-> <<>>],
     [op |-> "propagate", id |-> "25544", arg |-> <<>>],
     [op |-> "propagate", id |-> "25544", arg |-> <<"2026-06-15T12:00:00Z">>]}

(* the path each method requests *)
pathOf(c) ==
    CASE c.op = "collection" -> "/api/tle" \o c.arg[1]
      [] c.op = "record" -> "/api/tle/" \o c.id
      [] c.op = "propagate" ->
            "/api/tle/" \o c.id \o "/propagate" \o
                (IF c.arg = <<>> THEN "" ELSE "?date=" \o c.arg[1])

(* the cache key each method passes to request *)
cacheKeyOf(c) ==
    CASE c.op = "collection" -> "collection:" \o c.arg[1]
      [] c.op = "record" -> "record:" \o c.id
      [] c.op = "propagate" ->
            "propagate:" \o c.id \o ":" \o (IF c.arg = <<>> THEN "now" ELSE c.arg[1])

(* request, up to the fetch: the cache after the lookup and the cached data *)
requestBegin(cache, now, key) ==
    IF cache # <<>>
    THEN LET g == CacheGet(cache[1], now, key)
         IN  [cache |-> <<g.cache>>, cached |-> g.data]
    ELSE [cache |-> cache, cached |-> <<>>]

(* request on a response that is not OK, storing the body before the throw *)
requestRejectsStoring(cache, now, key, response) ==
    [cache |-> IF cache # <<>> THEN <<CacheSet(cache[1], now, key, response.body)>> ELSE cache,
     error |-> TleApiError(IF response.body # <<>> THEN response.body[1].response.message
                           ELSE "HTTP " \o response.statusText,
                           response.status, response.body)]

(* request on a response that is not OK: the cache after it and the error thrown *)
requestRejects(cache, now, key, response) ==
    [cache |-> cache,
     error |-> TleApiError(IF response.body # <<>> THEN response.body[1].response.message
                           ELSE "HTTP " \o response.statusText,
                           response.status, response.body)]

(* request on an OK response whose body was read: the cache after it and the data *)
requestResolves(cache, now, key, data) ==
    [cache |-> IF cache # <<>> THEN <<CacheSet(cache[1], now, key, data)>> ELSE cache,
     data |-> data]

(* What the server answers.  An OK answer carries the data of the path for the time
   the call was made (the target date when the path names one); another answer
   carries a status and a JSON body with a message, or a body that is not JSON. *)
ServerData(c, at) ==
    [path |-> pathOf(c), time |-> IF c.op = "propagate" /\ c.arg # <<>> THEN c.arg[1] ELSE at]

ErrorResponses ==
    {[ok |-> FALSE, status |-> 404, statusText |-> "404",
      body |-> <<[response |-> [message |-> "Resource not found"]]>>],
     [ok |-> FALSE, status |-> 500, statusText |-> "500", body |-> <<>>]}

OkResponse == [ok |-> TRUE, status |-> 200, statusText |-> "200", body |-> <<>>]

MaxClock == 3

MaxRequests == 3

(* new TleClient(), new TleClient({cacheTtl}), new TleClient({disableCache: true}) *)
ClientOptions ==
    {[disableCache |-> FALSE, cacheTtl |-> <<>>],
     [disableCache |-> FALSE, cacheTtl |-> <<1>>],
     [disableCache |-> TRUE, cacheTtl |-> <<>>]}

(* client: the options a TleClient was built with, its cache, the clock (Date.now())
   and the promises its methods have returned, in the order of the calls *)
InitClient ==
    /\ NoCallers
    /\ unit = <<>>
    /\ scan = <<>>
    /\ iter = 0
    /\ client \in {[options |-> o, cache |-> TleClient(o), now |-> 0, requests |-> <<>>] :
                        o \in ClientOptions}

Pending(c, key, at) ==
    [call |-> c, key |-> key, at |-> at, pc |-> "fetch", from |-> "network",
     response |-> <<>>, value |-> <<>>, error |-> <<>>]

(* a method is called: request runs up to its first await *)
ClientCall(c) ==
    /\ Len(client.requests) < MaxRequests
    /\ LET key == cacheKeyOf(c)
           b == requestBegin(client.cache, client.now, key)
       IN  client' = [client EXCEPT
                        !.cache = b.cache,
                        !.requests = Append(@,
                            IF b.cached # <<>>
                            THEN [Pending(c, key, client.now) EXCEPT
                                    !.pc = "resolved", !.from = "cache", !.value = b.cached]
                            ELSE Pending(c, key, client.now))]
    /\ UNCHANGED <<callerVars, unit, scan, iter>>

(* await fetch(url) resolves: a response that is not OK rejects the promise *)
FetchResolves(i, response) ==
    /\ i \in DOMAIN client.requests
    /\ client.requests[i].pc = "fetch"
    /\ LET r == client.requests[i]
       IN  IF response.ok
           THEN client' = [client EXCEPT !.requests[i].pc = "json",
                                         !.requests[i].response = <<response>>]
           ELSE LET x == requestRejects(client.cache, client.now, r.key, response)
                IN  client' = [client EXCEPT
                                 !.cache = x.cache,
                                 !.requests[i].pc = "rejected",
                                 !.requests[i].response = <<response>>,
                                 !.requests[i].error = <<x.error>>]
    /\ UNCHANGED <<callerVars, unit, scan, iter>>

(* await response.json() resolves: the data is stored and returned *)
JsonResolves(i) ==
    /\ i \in DOMAIN client.requests
    /\ client.requests[i].pc = "json"
    /\ LET r == client.requests[i]
           x == requestResolves(client.cache, client.now, r.key, ServerData(r.call, r.at))
       IN  client' = [client EXCEPT
                        !.cache = x.cache,
                        !.requests[i].pc = "resolved",
                        !.requests[i].value = <<x.data>>]
    /\ UNCHANGED <<callerVars, unit, scan, iter>>

(* clearCache(): this.cache?.clear(); on an empty or absent cache it changes nothing *)
ClearCache ==
    /\ client.cache # <<>>
    /\ client.cache[1].store # EmptyStore
    /\ client' = [client EXCEPT !.cache = <<CacheClear(client.cache[1])>>]
    /\ UNCHANGED <<callerVars, unit, scan, iter>>

(* pruneCache(): this.cache?.prune(); on an empty or absent cache it changes nothing *)
PruneCache ==
    /\ client.cache # <<>>
    /\ client.cache[1].store # EmptyStore
    /\ client' = [client EXCEPT !.cache = <<CachePrune(client.cache[1], client.now)>>]
    /\ UNCHANGED <<callerVars, unit, scan, iter>>

(* time passes *)
Tick ==
    /\ client.now < MaxClock
    /\ client' = [client EXCEPT !.now = @ + 1]
    /\ UNCHANGED <<callerVars, unit, scan, iter>>

NextClient ==
    \/ \E c \in ClientCalls : ClientCall(c)
    \/ \E i \in 1..MaxRequests : \E response \in ErrorResponses \cup {OkResponse} :
            FetchResolves(i, response)
    \/ \E i \in 1..MaxRequests : JsonResolves(i)
    \/ ClearCache
    \/ PruneCache
    \/ Tick

SpecClient == InitClient /\ [][NextClient]_vars

-----------------------------------------------------------------------------
(* findPasses of src/propagators/passes.ts.  Times are counted in hundredths of a
   minute.  propagateFn and observe are arguments of the search: they are the sky,
   which gives at each time an error or an elevation. *)

(* the sky is given every SkyStep, and is linear in between *)
SkyStep == 4

MaxSamples == 5

Looks ==
    {[error |-> TRUE, elevation |-> 0]} \cup
    {[error |-> FALSE, elevation |-> e] : e \in {-8, 4, 48}}

Skies == [1..MaxSamples -> Looks]

(* the sky's sample q, the first one before the sky begins and the last one after
   it ends *)
SkySample(sky, q) ==
    sky[(IF q < 0 THEN 0 ELSE IF q > Len(sky) - 1 THEN Len(sky) - 1 ELSE q) + 1]

(* propagateFn(elements, t) and observe(result, observer, jd): the error flag of
   the result and the elevation of the look angles *)
Look(sky, t) ==
    LET q == t \div SkyStep
        r == t % SkyStep
        lo == SkySample(sky, q)
        hi == SkySample(sky, q + 1)
    IN  IF r = 0 THEN lo
        ELSE IF lo.error \/ hi.error THEN [error |-> TRUE, elevation |-> 0]
        ELSE [error |-> FALSE,
              elevation |-> (lo.elevation * (SkyStep - r) + hi.elevation * r) \div SkyStep]

(* const tolerance = 0.01 *)
tolerance == 1

(* refineTime: the bisection from its iteration i on *)
RECURSIVE refineFrom(_, _, _, _, _, _)
refineFrom(sky, tLow, tHigh, threshold, type, i) ==
    IF i < 20 /\ (tHigh - tLow) > tolerance
    THEN LET tMid == (tLow + tHigh) \div 2
             look == Look(sky, tMid)
         IN  IF look.error THEN (IF type = "rise" THEN tHigh ELSE tLow)
             ELSE IF type = "rise"
                  THEN IF look.elevation < threshold
                       THEN refineFrom(sky, tMid, tHigh, threshold, type, i + 1)
                       ELSE refineFrom(sky, tLow, tMid, threshold, type, i + 1)
                  ELSE IF look.elevation >= threshold
                       THEN refineFrom(sky, tMid, tHigh, threshold, type, i + 1)
                       ELSE refineFrom(sky, tLow, tMid, threshold, type, i + 1)
    ELSE IF type = "rise" THEN tHigh ELSE tLow

(* Refine the exact rise or set time using bisection *)
refineTime(sky, tLow, tHigh, threshold, type) ==
    refineFrom(sky, tLow, tHigh, threshold, type, 0)

(* Determine pass quality based on maximum elevation *)
getPassQuality(maxElevation) ==
    IF maxElevation >= 60 THEN "excellent"
    ELSE IF maxElevation >= 30 THEN "good"
    ELSE IF maxElevation >= 15 THEN "fair"
    ELSE "poor"

(* what an array gives at an index that is not one of its indices *)
undefined == [undefined |-> TRUE]

(* Resample sky path to a specific number of points: Math.round(i * step) with
   step = (path.length - 1) / (numPoints - 1).  For numPoints = 1 the step is
   Infinity, 0 * step is NaN, Math.min(NaN, path.length - 1) is NaN and path[NaN]
   is undefined; for numPoints < 1 the loop does not run *)
resampleSkyPath(path, numPoints) ==
    IF Len(path) <= numPoints THEN path
    ELSE IF numPoints < 1 THEN <<>>
    ELSE [n \in 1..numPoints |->
            IF numPoints = 1 THEN undefined
            ELSE
            LET index == (2 * (n - 1) * (Len(path) - 1) + (numPoints - 1)) \div (2 * (numPoints - 1))
            IN  path[(IF index < Len(path) - 1 THEN index ELSE Len(path) - 1) + 1]]

RECURSIVE SumOver(_, _)
SumOver(passes, field) ==
    IF passes = <<>> THEN 0
    ELSE passes[1][field] + SumOver(Tail(passes), field)

(* Calculate statistics; an average is kept as the sum and the count it divides *)
Statistics(passes) ==
    LET totalPasses == Len(passes)
    IN  [totalPasses |-> totalPasses,
         goodPasses |-> Cardinality({n \in DOMAIN passes : passes[n].isGoodPass}),
         averageMaxElevation |->
            IF totalPasses > 0 THEN <<SumOver(passes, "maxElevation"), totalPasses>> ELSE <<0, 1>>,
         averageDuration |->
            IF totalPasses > 0 THEN <<SumOver(passes, "duration"), totalPasses>> ELSE <<0, 1>>]

(* the pass that ends at the sample t: setTime refined, the pass built *)
CompletePass(sky, o, currentPass, passNumber, t) ==
    LET setTime == refineTime(sky, t - o.stepMinutes, t, o.minElevation, "set")
    IN  [passNumber |-> passNumber,
         riseTime |-> currentPass.riseTime,
         maxElevationTime |-> currentPass.maxElTime,
         maxElevation |-> currentPass.maxEl,
         setTime |-> setTime,
         duration |-> setTime - currentPass.riseTime,
         skyPath |-> resampleSkyPath(currentPass.skyPath, o.skyPathPoints),
         isGoodPass |-> currentPass.maxEl >= 30,
         quality |-> getPassQuality(currentPass.maxEl)]

(* the body of the scan loop at the sample t, on the locals s *)
ScanBody(sky, o, s, t) ==
    LET look == Look(sky, t)
    IN  IF look.error THEN s
        ELSE
        LET elevation == look.elevation
            rising == elevation >= o.minElevation /\ ~s.inPass
            begun ==
                IF rising
                THEN [s EXCEPT
                        !.inPass = TRUE,
                        !.currentPass =
                            <<[riseTime |-> refineTime(sky, t - o.stepMinutes, t,
                                                       o.minElevation, "rise"),
                               maxEl |-> elevation,
                               maxElTime |-> t,
                               skyPath |-> <<>>]>>]
                ELSE s
            tracked ==
                IF begun.inPass /\ begun.currentPass # <<>>
                THEN LET p == begun.currentPass[1]
                     IN  [begun EXCEPT
                            !.currentPass =
                                <<[p EXCEPT
                                     !.maxEl = IF elevation > p.maxEl THEN elevation ELSE @,
                                     !.maxElTime = IF elevation > p.maxEl THEN t ELSE @,
                                     !.skyPath = Append(@, [tsince |-> t,
                                                            elevation |-> elevation])]>>]
                ELSE begun
        IN  IF elevation < o.minElevation /\ tracked.inPass /\ tracked.currentPass # <<>>
            THEN [tracked EXCEPT
                    !.passNumber = @ + 1,
                    !.passes = Append(@, CompletePass(sky, o, tracked.currentPass[1],
                                                      tracked.passNumber + 1, t)),
                    !.inPass = FALSE,
                    !.currentPass = <<>>]
            ELSE tracked

(* the options of a search: a window that ends at a sample or between samples, a
   step of the sky's step or of the tolerance of refineTime *)
SearchOptions ==
    {[startTsince |-> 0, durationMinutes |-> d, minElevation |-> e,
      stepMinutes |-> step, skyPathPoints |-> n] :
        d \in {SkyStep * (MaxSamples - 1), SkyStep * (MaxSamples - 1) - 2},
        e \in {0, 4, 8},
        step \in {SkyStep, tolerance},
        n \in {60, 2}}

InitPasses ==
    /\ NoCallers
    /\ unit = <<>>
    /\ client = <<>>
    /\ iter = 0
    /\ scan \in {[sky |-> sky, options |-> o, t |-> o.startTsince, pc |-> "loop",
                  locals |-> [passes |-> <<>>, passNumber |-> 0, inPass |-> FALSE,
                              currentPass |-> <<>>],
                  result |-> <<>>] : sky \in Skies, o \in SearchOptions}

(* for (let t = startTsince; t <= startTsince + durationMinutes; t += stepMinutes) *)
ScanSample ==
    /\ scan.pc = "loop"
    /\ scan.t <= scan.options.startTsince + scan.options.durationMinutes
    /\ scan' = [scan EXCEPT
                  !.locals = ScanBody(scan.sky, scan.options, scan.locals, scan.t),
                  !.t = @ + scan.options.stepMinutes]
    /\ UNCHANGED <<callerVars, unit, client, iter>>

(* the loop is over: statistics and the return *)
ScanReturn ==
    /\ scan.pc = "loop"
    /\ ~(scan.t <= scan.options.startTsince + scan.options.durationMinutes)
    /\ scan' = [scan EXCEPT
                  !.pc = "returned",
                  !.result = <<[passes |-> scan.locals.passes,
                                searchParams |->
                                    [startTsince |-> scan.options.startTsince,
                                     durationMinutes |-> scan.options.durationMinutes,
                                     minElevation |-> scan.options.minElevation],
                                stats |-> Statistics(scan.locals.passes)]>>]
    /\ UNCHANGED <<callerVars, unit, client, iter>>

NextPasses == ScanSample \/ ScanReturn

SpecPasses == InitPasses /\ [][NextPasses]_vars

-----------------------------------------------------------------------------
(* Functions of the ground track, the decay estimate and the observer, each applied
   to inputs of its own: sampleGroundTrack and estimateLifetime of
   src/propagators/ground-track.ts, resampleSkyPath of src/propagators/passes.ts,
   observe and footprintToGeoJSON of the observer *)

(* Sample ground track at a lower resolution: as resampleSkyPath, on track.points *)
sampleGroundTrack(track, numPoints) ==
    IF Len(track.points) <= numPoints THEN track.points
    ELSE IF numPoints < 1 THEN <<>>
    ELSE [n \in 1..numPoints |->
            IF numPoints = 1 THEN undefined
            ELSE
            LET index == (2 * (n - 1) * (Len(track.points) - 1) + (numPoints - 1))
                             \div (2 * (numPoints - 1))
            IN  track.points[(IF index < Len(track.points) - 1 THEN index
                              ELSE Len(track.points) - 1) + 1]]

(* Estimate satellite lifetime based on current orbital parameters.  Altitudes are
   whole kilometres and the lifetime returned is counted in tenths of a day, which
   keeps perigeeAltitude / 10 and (perigeeAltitude - 100) / 2 exact *)
estimateLifetime(perigeeAltitude, apogeeAltitude) ==
    IF perigeeAltitude > 1000 THEN 10 * 36500
    ELSE IF perigeeAltitude < 150 THEN perigeeAltitude
    ELSE IF perigeeAltitude < 200 THEN 5 * (perigeeAltitude - 100)
    ELSE IF perigeeAltitude < 300 THEN 10 * ((perigeeAltitude - 150) * 2)
    ELSE IF perigeeAltitude < 400 THEN 10 * ((perigeeAltitude - 200) * 5)
    ELSE IF perigeeAltitude < 500 THEN 10 * ((perigeeAltitude - 300) * 15)
    ELSE IF perigeeAltitude < 600 THEN 10 * ((perigeeAltitude - 400) * 50 + 365)
    ELSE IF perigeeAltitude < 800 THEN 10 * ((perigeeAltitude - 500) * 100 + 1825)
    ELSE 10 * ((perigeeAltitude - 600) * 200 + 5475)

(* Calculate the visibility footprint of a satellite: numPoints boundary points, one
   for each bearing i / numPoints of the circle.  The coordinates of a point are
   named by the sub-satellite point and the bearing they are computed from *)
calculateVisibilityFootprint(geodetic, minElevation, numPoints) ==
    [subSatellitePoint |-> [latitude |-> geodetic.latitude, longitude |-> geodetic.longitude],
     altitude |-> geodetic.altitude,
     minElevation |-> minElevation,
     boundaryPoints |->
        [n \in 1..numPoints |->
            [latitude |-> <<"pointLat", geodetic.latitude, n - 1>>,
             longitude |-> <<"pointLonDeg", geodetic.longitude, n - 1>>]]]

(* observe: the footprint and the time of the observation it returns; geodetic is
   eciToGeodetic of the state vector *)
observe(propagated, geodetic, footprintMinElevation) ==
    IF propagated.error
    THEN [footprint |-> [subSatellitePoint |-> [latitude |-> 0, longitude |-> 0],
                         altitude |-> 0,
                         minElevation |-> 0,
                         boundaryPoints |-> <<>>],
          tsince |-> propagated.tsince]
    ELSE [footprint |-> calculateVisibilityFootprint(geodetic, footprintMinElevation, 72),
          tsince |-> propagated.tsince]

(* Generate GeoJSON polygon for visibility footprint: footprint.boundaryPoints[0] of
   an empty array is undefined, and reading its longitude throws a TypeError *)
footprintToGeoJSON(footprint) ==
    IF footprint.boundaryPoints = <<>>
    THEN [thrown |-> "TypeError"]
    ELSE [type |-> "Feature",
          properties |-> [altitude |-> footprint.altitude,
                          minElevation |-> footprint.minElevation,
                          subSatellitePoint |-> footprint.subSatellitePoint],
          geometry |->
            [type |-> "Polygon",
             coordinates |->
                <<[n \in 1..Len(footprint.boundaryPoints) |->
                        <<footprint.boundaryPoints[n].longitude,
                          footprint.boundaryPoints[n].latitude>>]
                  \o <<<<footprint.boundaryPoints[1].longitude,
                         footprint.boundaryPoints[1].latitude>>>>>>]]

(* the longest track or sky path sampled *)
MaxPoints == 6

(* a track of the given number of points, one a minute *)
TrackOf(length) ==
    [points |-> [k \in 1..length |-> [tsince |-> k - 1, latitude |-> <<"latitude", k - 1>>,
                                      longitude |-> <<"longitude", k - 1>>]]]

(* a sky path of the given number of points *)
SkyPathOf(length) ==
    [k \in 1..length |-> [tsince |-> k - 1, elevation |-> <<"elevation", k - 1>>]]

(* perigee altitudes, in km, on both sides of every threshold of estimateLifetime *)
Perigees ==
    {100, 149, 150, 199, 200, 299, 300, 399, 400, 499, 500, 599, 600, 799, 800, 1000, 1001, 1500}

(* the results observed: a decay error and a state vector *)
ObservedResults ==
    {ErrorResult(Zero, "SGP4", "Satellite has decayed"),
     OkResult([ZeroState EXCEPT !.x = Norm(7000, 0), !.ydot = Norm(75, -1)], Zero, "SGP4")}

InitTools ==
    /\ NoCallers
    /\ unit = <<>>
    /\ client = <<>>
    /\ scan = <<>>
    /\ iter = 0

SampleGroundTrack(length, numPoints) ==
    /\ unit = <<>>
    /\ unit' = [op |-> "sampleGroundTrack", points |-> TrackOf(length).points,
                numPoints |-> numPoints,
                sampled |-> sampleGroundTrack(TrackOf(length), numPoints)]
    /\ UNCHANGED <<callerVars, client, scan, iter>>

ResampleSkyPath(length, numPoints) ==
    /\ unit = <<>>
    /\ unit' = [op |-> "resampleSkyPath", points |-> SkyPathOf(length),
                numPoints |-> numPoints,
                sampled |-> resampleSkyPath(SkyPathOf(length), numPoints)]
    /\ UNCHANGED <<callerVars, client, scan, iter>>

(* estimateLifetime of a lower and of a higher perigee, each with an apogee *)
EstimateLifetimes(lower, higher, above) ==
    /\ unit = <<>>
    /\ lower < higher
    /\ unit' = [op |-> "estimateLifetime", lower |-> lower, higher |-> higher,
                lifetimes |-> <<estimateLifetime(lower, lower + above[1]),
                                estimateLifetime(higher, higher + above[2])>>]
    /\ UNCHANGED <<callerVars, client, scan, iter>>

(* observe, and footprintToGeoJSON of the footprint it returned *)
ObserveFootprint(r, footprintMinElevation) ==
    /\ unit = <<>>
    /\ LET obs == observe(r, [latitude |-> <<"latitude", r.state>>,
                              longitude |-> <<"longitude", r.state>>,
                              altitude |-> <<"altitude", r.state>>],
                          footprintMinElevation)
       IN  unit' = [op |-> "observe", result |-> r, observation |-> obs,
                    geojson |-> footprintToGeoJSON(obs.footprint)]
    /\ UNCHANGED <<callerVars, client, scan, iter>>

NextTools ==
    \/ \E length \in 0..MaxPoints, numPoints \in 0..(MaxPoints + 1) :
            SampleGroundTrack(length, numPoints)
    \/ \E length \in 0..MaxPoints, numPoints \in 0..(MaxPoints + 1) :
            ResampleSkyPath(length, numPoints)
    \/ \E lower \in Perigees, higher \in Perigees, above \in {0, 50} \X {0, 50} :
            EstimateLifetimes(lower, higher, above)
    \/ \E r \in ObservedResults, footprintMinElevation \in {0, 10} :
            ObserveFootprint(r, footprintMinElevation)
    \/ Discard

SpecTools == InitTools /\ [][NextTools]_vars

-----------------------------------------------------------------------------
(* Properties of the results *)

ErrorMessages == {"Satellite has decayed", "Semi-latus rectum is negative"}

OkFields == {"state", "tsince", "algorithm", "error"}

(* r is one of the two shapes of a PropagationResult, for the time t and the model
   named algorithm *)
WellFormed(r, t, algorithm) ==
    /\ r.tsince = t
    /\ r.algorithm = algorithm
    /\ \/ /\ r.error = FALSE
          /\ DOMAIN r = OkFields
          /\ DOMAIN r.state = DOMAIN ZeroState
       \/ /\ r.error = TRUE
          /\ DOMAIN r = OkFields \cup {"errorMessage"}
          /\ r.state = ZeroState
          /\ r.errorMessage \in ErrorMessages

Evaluated == pc = "returned" /\ call.op = "evaluate"

IsDecayed(r) == r.error /\ r.errorMessage = "Satellite has decayed"

(* C1: every result sgp4, sgp8, sdp4 or sdp8 returns, with or without an init
   state, is either error = false without an errorMessage, or error = true with a
   zero state and one of the two messages; its tsince is the time asked for and its
   algorithm the model that ran *)
ResultShapes ==
    /\ Evaluated => WellFormed(result[1], call.tsince, call.model)
    /\ \A m \in Models : \A t \in Times : WellFormed(first[m][t], t, m)

(* a model has returned the negative semi-latus rectum error *)
ResultShapesWitness ==
    /\ Evaluated
    /\ result[1].error
    /\ result[1].errorMessage = "Semi-latus rectum is negative"
    /\ result[1].state = ZeroState

NearModels == {"SGP4", "SGP8"}

(* a and e (em for the deep-space models) as model m has them at its decay check,
   for the element record e at time t *)
SecularAt(m, e, t) ==
    CASE m = "SGP4" -> sgp4Secular(Call("sgp4init", <<e>>), t)
      [] m = "SGP8" -> sgp8Secular(e, Call("sgp8init", <<e>>), t)

DeepSecularAt(m, e, t) ==
    CASE m = "SDP4" -> sdp4Secular(e, Call("sdp4init", <<e>>), t)
      [] m = "SDP8" -> sdp8Secular(e, Call("sdp8init", <<e>>), t)

AxisBelowFloor(a) == Lt(a, Dec(95, -2))

EccentricityOutOfRange(e) == Ge(e, Num(1)) \/ Lt(e, Dec(-1, -3))

(* C2: sgp4 and sgp8 return 'Satellite has decayed' at t exactly when
   a = aodp * tempa^2 is below 0.95, or e = ecco - tempe is at least 1 or below
   -0.001; otherwise the evaluation goes on past the decay check *)
NearDecayExactly ==
    Evaluated /\ call.model \in NearModels =>
        LET u == SecularAt(call.model, elements, call.tsince)
        IN  IsDecayed(result[1]) <=> (AxisBelowFloor(u.a) \/ EccentricityOutOfRange(u.e))

(* sgp4 or sgp8 has returned the decay error for the semi-major axis alone *)
NearDecayExactlyWitness ==
    /\ Evaluated
    /\ call.model \in NearModels
    /\ IsDecayed(result[1])
    /\ LET u == SecularAt(call.model, elements, call.tsince)
       IN  AxisBelowFloor(u.a) /\ ~EccentricityOutOfRange(u.e)

(* C3: sdp4 and sdp8 return 'Satellite has decayed' whenever the corrected
   eccentricity is at least 1 or below -0.001 or the semi-major axis is below 0.95,
   so that no deep-space evaluation goes on with a semi-major axis below 0.95 *)
DeepDecayAsNear ==
    Evaluated /\ call.model \in DeepModels =>
        LET u == DeepSecularAt(call.model, elements, call.tsince)
        IN  (AxisBelowFloor(u.a) \/ EccentricityOutOfRange(u.em)) => IsDecayed(result[1])

(* C4: no entry point throws: whatever the model argument, propagateWithModel
   returns a result *)
NeverThrows == pc # "thrown"

ByPeriod(period) == IF Lt(period, Num(225)) THEN "near-earth" ELSE "deep-space"

DefaultModel(type) == IF type = "near-earth" THEN "SGP4" ELSE "SDP4"

EncodedPeriod == Div(TWOPI, elements.no)

RecoveredPeriod ==
    Div(TWOPI, Call("Recover", <<elements.no, elements.ecco, elements.inclo>>).xnodp)

(* C5: propagate returns the SGP4 result when the period 2 pi / no is below 225
   minutes and the SDP4 result when it is 225 or more, and getSatelliteType names
   the same family: a period of exactly 225 is deep-space *)
PeriodSelects ==
    /\ pc = "returned" /\ call.op = "propagate" =>
           result[1] = first[DefaultModel(ByPeriod(EncodedPeriod))][call.tsince]
    /\ pc = "returned" /\ call.op = "getSatelliteType" =>
           result[1] = ByPeriod(EncodedPeriod)

(* propagate has returned the SDP4 result for a period of exactly 225 minutes *)
PeriodSelectsWitness ==
    /\ pc = "returned"
    /\ call.op = "propagate"
    /\ EncodedPeriod = Num(225)
    /\ result[1].algorithm = "SDP4"

(* C6: the period propagate compares with 225 minutes is 2 pi over the recovered
   mean motion xnodp: SGP4 runs when that period is below 225, SDP4 otherwise *)
RecoveredPeriodSelects ==
    pc = "returned" /\ call.op = "propagate" =>
        result[1].algorithm = DefaultModel(ByPeriod(RecoveredPeriod))

(* C7: a model called with the init state its init function built returns what it
   returns without one, and an init state used again and again returns at each
   time what a call that initialises afresh returns *)
ReuseAsFresh ==
    Evaluated /\ call.reuse => result[1] = first[call.model][call.tsince]

(* an init state with which the model returned an error at one time is used again
   at another time, and the model returns a state vector *)
ReuseAsFreshWitness ==
    /\ Evaluated
    /\ call.reuse
    /\ afterDecay
    /\ ~result[1].error

FirstOf(model, t) ==
    IF model \in Models THEN first[model][t] ELSE Call("sgp", <<Catalogue[sat], t>>)

(* C8: what a model returns for (elements, t) does not depend on the calls made
   before: after any calls, decay errors among them, it is what the model returns
   when called first *)
HistoryFree ==
    /\ Evaluated => result[1] = first[call.model][call.tsince]
    /\ pc = "returned" /\ call.op = "propagateWithModel" =>
           result[1] = FirstOf(call.model, call.tsince)

(* a call at another time after a call that returned an error has returned a
   state vector *)
HistoryFreeWitness ==
    /\ pc = "returned"
    /\ call.op \in {"evaluate", "propagateWithModel"}
    /\ ~call.reuse
    /\ afterDecay
    /\ ~result[1].error

(* the integrator fields of a resonant ds as dsinit seeds them *)
Seeded(state) ==
    state.ds.iresfl =>
        /\ state.ds.xli = elements.mo
        /\ state.ds.xni = state.xnodp
        /\ state.ds.atime = Zero
        /\ state.ds.xfact = Zero

(* C9: after any calls of sgp4, sgp8, sdp4, sdp8, dssec and dsper the element
   record is the one handed in and the init state, ds included, is the one the init
   function built; the integrator fields of ds hold what dsinit seeded *)
InputsUnchanged ==
    /\ elements = Catalogue[sat]
    /\ held # <<>> =>
           /\ held[1].state = Call("initOf", <<held[1].model, Catalogue[sat]>>)
           /\ held[1].model \in DeepModels => Seeded(held[1].state)

(* dsper has returned from a call on the ds of a resonant orbit *)
InputsUnchangedWitness ==
    /\ pc = "returned"
    /\ call.op = "dsper"
    /\ call.tsince # Zero
    /\ held[1].state.ds.iresfl
    /\ held[1].state.ds.xni = held[1].state.xnodp
    /\ held[1].state.ds.xni # Zero

(* C10: evaluations of sdp4 that run in parallel on one element record and one
   init state return, however their steps interleave, what each returns alone *)
ParallelAsAlone ==
    \A c \in Contexts :
        ctx[c].pc = "done" => ctx[c].out[1] = first["SDP4"][ctx[c].tsince]

(* an evaluation has finished whose steps were interleaved with another's, at
   another time *)
ParallelAsAloneWitness ==
    \E c \in Contexts :
        /\ ctx[c].pc = "done"
        /\ ctx[c].mixed
        /\ \E d \in Contexts \ {c} : ctx[d].pc \in Running /\ ctx[d].tsince # ctx[c].tsince

-----------------------------------------------------------------------------
(* Properties of the Kepler loop, of the decay of low orbits and of the init
   functions *)

Tolerance == Dec(1, -12)

IterationCap == 10

(* the loop was left before its tenth iteration only through the break, and the
   step of the iteration before the break was below the tolerance *)
LeftProperly ==
    /\ unit.k.iters <= IterationCap
    /\ unit.k.done => unit.tem5 # <<>> /\ Lt(Abs(unit.tem5[1]), Tolerance)
    /\ unit.pc = "left" => unit.k.done \/ unit.k.iters = IterationCap

(* C11: the Kepler loop makes at most 10 iterations whatever capu, axn and ayn
   are, leaves earlier only after an iteration whose step is below 1e-12 in
   magnitude, and is always left *)
KeplerTerminates == [](LeftProperly) /\ <>(unit.pc = "left")

(* the loop has been left after ten iterations that did not converge, on finite
   values *)
KeplerTerminatesWitness ==
    /\ unit.pc = "left"
    /\ unit.k.iters = IterationCap
    /\ ~unit.k.done
    /\ IsFinite(unit.k.eo1)

StepCap == Dec(95, -2)

PastThresholds ==
    LET u == sgp4Secular(Call("sgp4init", <<unit.elements>>), unit.tsince)
    IN  AxisBelowFloor(u.a) \/ EccentricityOutOfRange(u.e)

(* C13: sgp4 called forward in time on an element set of low perigee and high drag
   returns an error at some finite t > 0, and at no t a state vector from a
   semi-major axis below 0.95 or an eccentricity outside [-0.001, 1) *)
DecaysEventually ==
    /\ [](unit.result # <<>> /\ ~unit.result[1].error => ~PastThresholds)
    /\ <>(unit.decayed)

(* sgp4 returned state vectors first and the decay error at a later call *)
DecaysEventuallyWitness ==
    /\ unit.calls >= 3
    /\ unit.result[1].error
    /\ unit.result[1].errorMessage = "Satellite has decayed"
    /\ unit.result[1].tsince = unit.tsince

PeriodOf(xnodp) == Div(TWOPI, xnodp)

(* C14: dsinit sets iresfl and isynfl for a period of 1200 minutes or more, iresfl
   alone for a period from 600 to 800 minutes, and neither flag for any other
   period; isynfl is never set without iresfl *)
ResonanceByPeriod ==
    unit # <<>> /\ unit.op = "dsinit" =>
        LET period == PeriodOf(unit.elements.no)
            day == Ge(period, Num(1200))
            half == Ge(period, Num(600)) /\ Le(period, Num(800))
        IN  /\ unit.ds.isynfl <=> day
            /\ unit.ds.iresfl <=> (day \/ half)
            /\ unit.ds.isynfl => unit.ds.iresfl

(* dsinit has set iresfl alone, for a period of exactly 800 minutes *)
ResonanceByPeriodWitness ==
    /\ unit # <<>>
    /\ unit.op = "dsinit"
    /\ PeriodOf(unit.elements.no) = Num(800)
    /\ unit.ds.iresfl
    /\ ~unit.ds.isynfl

(* C15: a ds that differs only in iresfl, isynfl, xfact, xli, xni and atime gives
   the same dssec and dsper outputs and the same sdp4 and sdp8 results at every t *)
FlagsIgnored ==
    unit # <<>> /\ unit.op = "flags" =>
        /\ unit.secular[1] = unit.secular[2]
        /\ unit.periodic[1] = unit.periodic[2]
        /\ unit.asBuilt = unit.replaced

(* a resonant orbit evaluated with its ds marked not resonant, away from epoch *)
FlagsIgnoredWitness ==
    /\ unit # <<>>
    /\ unit.op = "flags"
    /\ unit.ds.iresfl
    /\ ~unit.flags.iresfl
    /\ unit.tsince # Zero
    /\ ~unit.asBuilt.error

(* the perigee altitude in km of the orbit sgp4init recovered *)
PerigeeAltitude(state) ==
    Mul(Sub(Mul(state.a, Sub(Num(1), state.ecco)), AE), XKMPER)

HigherOrderZero(state) ==
    /\ state.d2 = Zero /\ state.d3 = Zero /\ state.d4 = Zero
    /\ state.t3cof = Zero /\ state.t4cof = Zero /\ state.t5cof = Zero

(* C16: sgp4init chooses the simplified drag expansion, with d2, d3, d4, t3cof,
   t4cof and t5cof zero, exactly when the perigee altitude is below 156 km *)
SimplifiedBelow156 ==
    unit # <<>> /\ unit.op = "sgp4init" =>
        /\ unit.state.isimp = 1 <=> Lt(PerigeeAltitude(unit.state), Num(156))
        /\ unit.state.isimp = 1 => HigherOrderZero(unit.state)


-----------------------------------------------------------------------------
(* Properties of the TLE API client *)

(* the promise the latest call returned *)
Latest(c) == c.requests[Len(c.requests)]

(* the cache holds an entry for the key that has not expired *)
Fresh(c, key) ==
    /\ c.cache # <<>>
    /\ key \in DOMAIN c.cache[1].store
    /\ c.now <= c.cache[1].store[key].expiresAt

(* the time to live the client was built with *)
TimeToLive(c) ==
    IF c.options.cacheTtl = <<>> THEN TWELVE_HOURS_MS ELSE c.options.cacheTtl[1]

(* a call is served from the cache while the entry's time is not past, and goes to
   the network, with the entry removed, otherwise *)
ServedWhileFresh ==
    Len(client'.requests) > Len(client.requests) =>
        LET r == Latest(client')
        IN  IF Fresh(client, r.key)
            THEN /\ r.pc = "resolved"
                 /\ r.from = "cache"
                 /\ r.value = <<client.cache[1].store[r.key].data>>
                 /\ client'.cache = client.cache
            ELSE /\ r.pc = "fetch"
                 /\ r.from = "network"
                 /\ r.value = <<>>
                 /\ client'.cache # <<>> => r.key \notin DOMAIN client'.cache[1].store

(* a successful response is stored under its key with store time + TTL *)
StoredWithTtl ==
    \A i \in DOMAIN client.requests :
        /\ client.requests[i].pc = "json"
        /\ client'.requests[i].pc = "resolved"
        /\ client.cache # <<>>
        => /\ client'.requests[i].key \in DOMAIN client'.cache[1].store
           /\ client'.cache[1].store[client'.requests[i].key] =
                [data |-> client'.requests[i].value[1],
                 expiresAt |-> client.now + TimeToLive(client)]

(* C17: a stored response is returned without a network request to every later
   request for its key made while the time is not past store time + TTL, and never
   after it: the first request after expiry removes the entry and fetches again *)
CachedUntilExpiry == [][ServedWhileFresh /\ StoredWithTtl]_vars

(* one key fetched, served from the cache later, and fetched again after expiry *)
CachedUntilExpiryWitness ==
    /\ client # <<>>
    /\ \E i, j, l \in DOMAIN client.requests :
        /\ i < j /\ j < l
        /\ client.requests[i].key = client.requests[j].key
        /\ client.requests[j].key = client.requests[l].key
        /\ client.requests[i].from = "network" /\ client.requests[i].pc = "resolved"
        /\ client.requests[j].from = "cache" /\ client.requests[j].at > client.requests[i].at
        /\ client.requests[l].from = "network" /\ client.requests[l].at > client.requests[j].at
        /\ client.cache # <<>>
        /\ client.requests[i].key \notin DOMAIN client.cache[1].store

(* C18: propagate(id) without a date returns the position for the time of that
   call, on every call *)
DatelessIsCurrent ==
    \A i \in DOMAIN client.requests :
        /\ client.requests[i].call.op = "propagate"
        /\ client.requests[i].call.arg = <<>>
        /\ client.requests[i].pc = "resolved"
        => client.requests[i].value[1].time = client.requests[i].at

(* a response that is not OK rejects with a TleApiError of its status *)
RejectedWithStatus ==
    \A i \in DOMAIN client.requests :
        LET r == client.requests[i]
        IN  r.response # <<>> /\ ~r.response[1].ok =>
                /\ r.pc = "rejected"
                /\ r.value = <<>>
                /\ r.error # <<>>
                /\ r.error[1].name = "TleApiError"
                /\ r.error[1].status = r.response[1].status

(* the step that rejects a request leaves the cache as it was *)
RejectionStoresNothing ==
    \A i \in DOMAIN client.requests :
        client.requests[i].pc = "fetch" /\ client'.requests[i].pc = "rejected"
            => client'.cache = client.cache

(* a request for the key of a rejected one, with no successful fetch of that key
   by a third request, goes to the network *)
AgainToNetwork ==
    \A i, j \in DOMAIN client.requests :
        /\ i < j
        /\ client.requests[i].key = client.requests[j].key
        /\ client.requests[i].pc = "rejected"
        /\ \A n \in DOMAIN client.requests \ {i, j} :
                ~(client.requests[n].key = client.requests[i].key
                    /\ client.requests[n].from = "network"
                    /\ client.requests[n].pc = "resolved")
        => client.requests[j].from = "network"

(* C19: on a response that is not OK collection, record and propagate reject with a
   TleApiError whose status is the HTTP status, and the failed request creates or
   changes no cache entry, so the next request for the key goes to the network *)
FailureNotCached ==
    /\ [](RejectedWithStatus /\ AgainToNetwork)
    /\ [][RejectionStoresNothing]_vars

(* with a cache, a request rejected with 404 and a later request for its key *)
FailureNotCachedWitness ==
    /\ client # <<>>
    /\ client.cache # <<>>
    /\ \E i, j \in DOMAIN client.requests :
        /\ i < j
        /\ client.requests[i].key = client.requests[j].key
        /\ client.requests[i].pc = "rejected"
        /\ client.requests[i].error[1].status = 404
        /\ client.requests[j].at > client.requests[i].at
        /\ client.requests[j].from = "network"

-----------------------------------------------------------------------------
(* Properties of the pass search *)

(* the samples of the window at which the sky gives an elevation *)
SampleTimes(s) ==
    {t \in {s.options.startTsince + n * s.options.stepMinutes :
                n \in 0..(s.options.durationMinutes \div s.options.stepMinutes)} :
        /\ t <= s.options.startTsince + s.options.durationMinutes
        /\ ~Look(s.sky, t).error}

AtOrAbove(s, t) == Look(s.sky, t).elevation >= s.options.minElevation

(* the maximal run of consecutive samples at or above minElevation that holds t *)
RunOf(s, t) ==
    {u \in SampleTimes(s) :
        \A w \in SampleTimes(s) :
            (u <= w /\ w <= t) \/ (t <= w /\ w <= u) => AtOrAbove(s, w)}

MaximalRuns(s) == {RunOf(s, t) : t \in {u \in SampleTimes(s) : AtOrAbove(s, u)}}

(* the pass spans the samples of the run *)
Reports(p, run) == \A t \in run : p.riseTime <= t /\ t <= p.setTime

(* C20: every maximal run of consecutive samples of the window whose elevation is
   at least minElevation is reported as exactly one pass, a run that is still above
   minElevation at the last sample included *)
AllRunsReported ==
    scan.pc = "returned" =>
        LET passes == scan.result[1].passes
        IN  /\ Len(passes) = Cardinality(MaximalRuns(scan))
            /\ \A run \in MaximalRuns(scan) :
                    Cardinality({n \in DOMAIN passes : Reports(passes[n], run)}) = 1

(* C21: every pass reported by findPasses has setTime strictly greater than riseTime
   and duration = setTime - riseTime > 0, whatever startTsince, durationMinutes,
   stepMinutes and minElevation are *)
SetAfterRise ==
    scan.pc = "returned" =>
        \A n \in DOMAIN scan.result[1].passes :
            LET p == scan.result[1].passes[n]
            IN  /\ p.setTime > p.riseTime
                /\ p.duration = p.setTime - p.riseTime
                /\ p.duration > 0

(* C22: every pass reported by findPasses has its rise time inside the search
   window, riseTime >= startTsince, also when the satellite is already above
   minElevation at the first sample *)
RiseInWindow ==
    scan.pc = "returned" =>
        \A n \in DOMAIN scan.result[1].passes :
            scan.result[1].passes[n].riseTime >= scan.options.startTsince

(* C26: decay is permanent in forward time: once sgp4 has returned a decay error at
   some t >= 0, it returns an error at every later t' > t *)
DecayPermanent == unit.decayed => unit.result[1].error

(* C27: when an initState is supplied the result depends only on that initState and
   t, in all four models alike: the call with the init state of one record and
   another record as elements returns what the call on the first record returns *)
InitStateAlone ==
    unit # <<>> /\ unit.op = "initState" => unit.withState = unit.alone

-----------------------------------------------------------------------------
(* Properties of the sampling, the lifetime estimate and the footprint *)

Least(a, b) == IF a < b THEN a ELSE b

(* the places of the points at which the value v stands *)
PlacesOf(points, v) == {k \in DOMAIN points : points[k] = v}

(* C23: sampleGroundTrack(track, n) returns exactly min(n, track.points.length)
   entries, each of them an element of track.points, in their original order, for
   every n >= 0; resampleSkyPath applies the same rule to a sky path *)
SampledInOrder ==
    unit # <<>> /\ unit.op \in {"sampleGroundTrack", "resampleSkyPath"} =>
        /\ Len(unit.sampled) = Least(unit.numPoints, Len(unit.points))
        /\ \A i \in DOMAIN unit.sampled : PlacesOf(unit.points, unit.sampled[i]) # {}
        /\ \A i, j \in DOMAIN unit.sampled :
                i < j => \A a \in PlacesOf(unit.points, unit.sampled[i]) :
                            \A b \in PlacesOf(unit.points, unit.sampled[j]) : a < b

(* C24: estimateLifetime returns a longer, never a shorter, lifetime for a higher
   orbit: for perigee altitudes p1 < p2 the estimate of p2 is at least that of p1 *)
HigherLivesLonger ==
    unit # <<>> /\ unit.op = "estimateLifetime" => unit.lifetimes[2] >= unit.lifetimes[1]

(* C25: for every footprint in an ObservationResult returned by observe, the one
   returned for a propagation result with error = true included, footprintToGeoJSON
   returns a Polygon Feature whose single ring has boundaryPoints.length + 1
   coordinates, the first of them repeated at the end *)
RingClosed ==
    unit # <<>> /\ unit.op = "observe" =>
        /\ "thrown" \notin DOMAIN unit.geojson
        /\ unit.geojson.type = "Feature"
        /\ unit.geojson.geometry.type = "Polygon"
        /\ Len(unit.geojson.geometry.coordinates) = 1
        /\ LET ring == unit.geojson.geometry.coordinates[1]
           IN  /\ Len(ring) = Len(unit.observation.footprint.boundaryPoints) + 1
               /\ ring[Len(ring)] = ring[1]
=============================================================================
